---- MODULE Spec2Model ----
(***************************************************************************)
(* Model of the multi-agent SQL pipeline of Text_to_SQL:                   *)
(*   agents/orchestrator.py        SQLAgentOrchestrator.process_query      *)
(*   agents/db2_syntax_validator.py, where_clause_enhancer.py,             *)
(*   query_optimizer.py, column_validation.py, sql_regeneration.py         *)
(* Queries, questions and column names are strings; the regular            *)
(* expressions of the agents are written as syntax trees and run by the    *)
(* backtracking matcher below, so a rewrite is computed on the characters  *)
(* of the query as the Python code computes it.                            *)
(* Confidences are integers in units of 1/120 (1.0 = 120), so the mean of  *)
(* up to four logged confidences that are multiples of 0.1 is exact.       *)
(***************************************************************************)
EXTENDS Integers, Sequences, FiniteSets, TLC

(***************************************************************************)
(* Strings                                                                 *)
(***************************************************************************)
\* Python's None (a JSON null, a missing dict.get default)
None == "<None>"

\* truthiness of an Optional[str]: `if not sql_query`
Truthy(x) == x # None /\ x # ""

LowerLetters == "abcdefghijklmnopqrstuvwxyz"
UpperLetters == "ABCDEFGHIJKLMNOPQRSTUVWXYZ"
Digits == "0123456789"

Ch(s, i) == SubSeq(s, i, i)

Max(a, b) == IF a > b THEN a ELSE b
Min(a, b) == IF a < b THEN a ELSE b

\* Python computes an argument before the call it is passed to: Evaluated(x)
\* holds once x has its value, so a callee that starts with it works on a value
Evaluated(x) == x = x

CharsOf(alphabet) == {Ch(alphabet, k) : k \in 1..Len(alphabet)}

\* position of the one-character string c in alphabet, 0 when absent
PosIn(c, alphabet) ==
  LET hits == {k \in 1..Len(alphabet) : Ch(alphabet, k) = c}
  IN IF hits = {} THEN 0 ELSE CHOOSE k \in hits : TRUE

LowerSet == CharsOf(LowerLetters)
UpperSet == CharsOf(UpperLetters)
DigitSet == CharsOf(Digits)
\* \w of Python's re on ASCII text
WordSet == LowerSet \cup UpperSet \cup DigitSet \cup {"_"}

UpperMap == [c \in LowerSet |-> Ch(UpperLetters, PosIn(c, LowerLetters))]
LowerMap == [c \in UpperSet |-> Ch(LowerLetters, PosIn(c, UpperLetters))]

UpperChar(c) == IF c \in LowerSet THEN UpperMap[c] ELSE c
LowerChar(c) == IF c \in UpperSet THEN LowerMap[c] ELSE c

RECURSIVE MapChars(_, _)
\* str.upper() / str.lower(): up = TRUE for upper(); the text is mapped in
\* eight parts of length w
MapChars(s, up) ==
  IF Len(s) = 0 THEN ""
  ELSE IF Len(s) = 1 THEN (IF up THEN UpperChar(s) ELSE LowerChar(s))
  ELSE LET w == (Len(s) + 7) \div 8
           P(k) == MapChars(SubSeq(s, (k - 1) * w + 1, Min(k * w, Len(s))), up)
       IN ((P(1) \o P(2)) \o (P(3) \o P(4))) \o ((P(5) \o P(6)) \o (P(7) \o P(8)))

Upper(s) == CASE Evaluated(s) -> MapChars(s, TRUE)
Lower(s) == CASE Evaluated(s) -> MapChars(s, FALSE)

\* `sub in s`
Contains(s, sub) ==
  Evaluated(s) /\ \E i \in 1..(Len(s) - Len(sub) + 1) : SubSeq(s, i, i + Len(sub) - 1) = sub

StartsWith(s, pre) == Len(s) >= Len(pre) /\ SubSeq(s, 1, Len(pre)) = pre

\* \s and str.strip(): blank, tab, line feed, carriage return, form feed
IsSpace(c) == c \in {" ", "\t", "\n", "\r", "\f"}
IsDigit(c) == c \in DigitSet
IsWordChar(c) == c \in WordSet

MinOf(S) == CHOOSE a \in S : \A b \in S : a <= b
MaxOf(S) == CHOOSE a \in S : \A b \in S : a >= b

\* the elements of a finite set of integers in increasing order
SortedSeq(S) ==
  [j \in 1..Cardinality(S) |-> CHOOSE e \in S : Cardinality({x \in S : x < e}) = j - 1]

\* str.strip()
Strip(s) ==
  LET Between(ink) == IF ink = {} THEN "" ELSE SubSeq(s, MinOf(ink), MaxOf(ink))
  IN CASE Evaluated(s) -> Between({k \in 1..Len(s) : ~IsSpace(Ch(s, k))})

\* str.isdigit()
IsDigitStr(s) == Len(s) > 0 /\ \A k \in 1..Len(s) : IsDigit(Ch(s, k))

\* str.split(sep) for a one-character separator
Split(s, sep) ==
  LET Parts(at) ==
        [j \in 1..(Len(at) + 1) |->
           SubSeq(s, IF j = 1 THEN 1 ELSE at[j - 1] + 1,
                     IF j > Len(at) THEN Len(s) ELSE at[j] - 1)]
  IN Parts(SortedSeq({k \in 1..Len(s) : Ch(s, k) = sep}))

RECURSIVE ConcatAll(_)
\* the concatenation of a sequence of sequences (or of strings)
ConcatAll(ss) ==
  IF Len(ss) = 0 THEN <<>>
  ELSE IF Len(ss) = 1 THEN ss[1]
  ELSE LET h == Len(ss) \div 2
       IN ConcatAll(SubSeq(ss, 1, h)) \o ConcatAll(SubSeq(ss, h + 1, Len(ss)))

RECURSIVE ConcatStr(_)
ConcatStr(ss) ==
  IF Len(ss) = 0 THEN ""
  ELSE IF Len(ss) = 1 THEN ss[1]
  ELSE LET h == Len(ss) \div 2
       IN ConcatStr(SubSeq(ss, 1, h)) \o ConcatStr(SubSeq(ss, h + 1, Len(ss)))

\* sep.join(parts)
JoinStr(parts, sep) ==
  ConcatStr([k \in 1..Len(parts) |-> IF k = 1 THEN parts[k] ELSE sep \o parts[k]])

(***************************************************************************)
(* Regular expressions (Python's re): syntax trees and a backtracking      *)
(* matcher that returns the matches at a position in Python's priority     *)
(* order, so the first one is the match re.search / re.sub would use.      *)
(* With re.IGNORECASE the subject is upper-cased and the literals of the   *)
(* pattern are written with LI (upper-cased once).                         *)
(***************************************************************************)
Inf == 100000
MaxGroups == 4

L(str) == [t |-> "lit", s |-> str]
LI(str) == [t |-> "lit", s |-> Upper(str)]
\* a character class with a quantifier {lo,hi}; greedy or lazy
Cls(neg, chars, w, sp, d, lo, hi, greedy) ==
  [t |-> "cls", neg |-> neg, chars |-> CharsOf(chars), w |-> w, sp |-> sp, d |-> d,
   lo |-> lo, hi |-> hi, gr |-> greedy]
Sq(xs) == [t |-> "seq", xs |-> xs]
Alt(xs) == [t |-> "alt", xs |-> xs]
\* (?:x)?
Opt(x) == [t |-> "opt", x |-> x]
Grp(n, x) == [t |-> "grp", n |-> n, x |-> x]
Look(x) == [t |-> "look", x |-> x]
Eos == [t |-> "eos"]
Eol == [t |-> "eol"]
Wb == [t |-> "wb"]

\* \s+  \s*  \d+  \w+  [^\s]+
Sp1 == Cls(FALSE, "", FALSE, TRUE, FALSE, 1, Inf, TRUE)
Sp0 == Cls(FALSE, "", FALSE, TRUE, FALSE, 0, Inf, TRUE)
Dg1 == Cls(FALSE, "", FALSE, FALSE, TRUE, 1, Inf, TRUE)
Wd1 == Cls(FALSE, "", TRUE, FALSE, FALSE, 1, Inf, TRUE)
NonSp1 == Cls(TRUE, "", FALSE, TRUE, FALSE, 1, Inf, TRUE)

InClass(c, n) ==
  LET m == (n.w /\ IsWordChar(c)) \/ (n.sp /\ IsSpace(c)) \/ (n.d /\ IsDigit(c))
           \/ c \in n.chars
  IN IF n.neg THEN ~m ELSE m

NoGroups == [k \in 1..MaxGroups |-> <<0, 0>>]

RECURSIVE RunLen(_, _, _, _)
\* number of consecutive characters of class n from position i, at most hi;
\* the text is scanned a stretch at a time
RunLen(n, s, i, hi) ==
  LET stretch == 16
      Scan(last) ==
        LET Upto(bad) ==
              IF bad # {} THEN MinOf(bad) - i
              ELSE IF last < i THEN 0
              ELSE (last - i + 1) + RunLen(n, s, last + 1, hi - (last - i + 1))
        IN Upto({j \in i..last : ~InClass(Ch(s, j), n)})
  IN Scan(Min(Min(Len(s), i + stretch - 1), i + hi - 1))

IsWordAt(s, i) == i >= 1 /\ i <= Len(s) /\ IsWordChar(Ch(s, i))

RECURSIVE M(_, _, _, _)
RECURSIVE MSeq(_, _, _, _)
\* the matches of node n against s from position i: a sequence of
\* [e |-> position after the match, g |-> group spans], best first
M(n, s, i, g) ==
  CASE n.t = "lit" ->
         IF i + Len(n.s) - 1 <= Len(s) /\ SubSeq(s, i, i + Len(n.s) - 1) = n.s
         THEN <<[e |-> i + Len(n.s), g |-> g]>> ELSE <<>>
    [] n.t = "cls" ->
         LET Runs(run) ==
               IF run < n.lo THEN <<>>
               ELSE [k \in 1..(run - n.lo + 1) |->
                      [e |-> i + (IF n.gr THEN run - k + 1 ELSE n.lo + k - 1), g |-> g]]
         IN Runs(RunLen(n, s, i, n.hi))
    [] n.t = "seq" -> MSeq(n.xs, 1, s, <<[e |-> i, g |-> g]>>)
    [] n.t = "alt" -> ConcatAll([k \in 1..Len(n.xs) |-> M(n.xs[k], s, i, g)])
    \* greedy: the item is tried before the empty match
    [] n.t = "opt" -> M(n.x, s, i, g) \o <<[e |-> i, g |-> g]>>
    [] n.t = "grp" ->
         LET Captured(rs) ==
               [k \in 1..Len(rs) |->
                  [e |-> rs[k].e, g |-> [rs[k].g EXCEPT ![n.n] = <<i, rs[k].e>>]]]
         IN Captured(M(n.x, s, i, g))
    [] n.t = "look" -> IF M(n.x, s, i, g) # <<>> THEN <<[e |-> i, g |-> g]>> ELSE <<>>
    \* $ : at the end of the text or before a line feed that ends the text
    [] n.t = "eos" ->
         IF i = Len(s) + 1 \/ (i = Len(s) /\ Ch(s, i) = "\n")
         THEN <<[e |-> i, g |-> g]>> ELSE <<>>
    \* $ under re.MULTILINE: at the end of the text or before any line feed
    [] n.t = "eol" ->
         IF i = Len(s) + 1 \/ (i <= Len(s) /\ Ch(s, i) = "\n")
         THEN <<[e |-> i, g |-> g]>> ELSE <<>>
    [] n.t = "wb" ->
         IF IsWordAt(s, i - 1) # IsWordAt(s, i) THEN <<[e |-> i, g |-> g]>> ELSE <<>>

\* the items xs[k..] matched one after the other from each of the partial
\* matches rs, kept in priority order
MSeq(xs, k, s, rs) ==
  IF k > Len(xs) \/ rs = <<>> THEN rs
  ELSE MSeq(xs, k + 1, s, ConcatAll([j \in 1..Len(rs) |-> M(xs[k], s, rs[j].e, rs[j].g)]))

NoMatch == [st |-> 0, e |-> 0, g |-> NoGroups]

\* the best match starting at each position of s
MatchesAt(re, s) ==
  LET Best(i, rs) == IF rs = <<>> THEN NoMatch ELSE [st |-> i, e |-> rs[1].e, g |-> rs[1].g]
  IN [i \in 1..(Len(s) + 1) |-> Best(i, M(re, s, i, NoGroups))]

\* the leftmost match at or after position p, NoMatch when there is none
FirstFrom(at, p) ==
  LET First(starts) == IF starts = {} THEN NoMatch ELSE at[MinOf(starts)]
  IN First({i \in p..Len(at) : at[i].st # 0})

\* re.search(pattern, s) / re.search(pattern, s, re.IGNORECASE)
Search(re, s, ci) ==
  CASE Evaluated(s) -> FirstFrom(MatchesAt(re, IF ci THEN Upper(s) ELSE s), 1)
Found(m) == m.st # 0

\* match.group(n) read from the original text; None for a group that did not take part
Group(s, m, n) ==
  IF m.g[n] = <<0, 0>> THEN None ELSE SubSeq(s, m.g[n][1], m.g[n][2] - 1)
\* match.group() / match.group(0)
Group0(s, m) == SubSeq(s, m.st, m.e - 1)

RECURSIVE FindAllFrom(_, _)
FindAllFrom(at, p) ==
  LET Rest(m) == IF ~Found(m) THEN <<>>
                 ELSE <<m>> \o FindAllFrom(at, IF m.e = m.st THEN m.e + 1 ELSE m.e)
  IN Rest(FirstFrom(at, p))
\* re.finditer: the non-overlapping matches, left to right
FindAll(re, s, ci) ==
  CASE Evaluated(s) -> FindAllFrom(MatchesAt(re, IF ci THEN Upper(s) ELSE s), 1)

\* a replacement template: literal text and \n group references
TLit(str) == [grp |-> 0, lit |-> str]
TGrp(n) == [grp |-> n, lit |-> ""]

\* match.expand(template)
Expand(tpl, s, m) ==
  LET Text(group) == IF group = None THEN "" ELSE group
  IN ConcatStr([k \in 1..Len(tpl) |->
       IF tpl[k].grp = 0 THEN tpl[k].lit ELSE Text(Group(s, m, tpl[k].grp))])

\* re.sub(pattern, template, s): every non-overlapping match replaced
\* (no pattern of the agents matches the empty string)
Sub(re, tpl, s, ci) ==
  LET Replaced(ms) ==
        CASE Evaluated(ms) -> ConcatStr([k \in 1..(Len(ms) + 1) |->
          SubSeq(s, IF k = 1 THEN 1 ELSE ms[k - 1].e,
                    IF k > Len(ms) THEN Len(s) ELSE ms[k].st - 1)
          \o (IF k > Len(ms) THEN "" ELSE Expand(tpl, s, ms[k]))])
  IN Replaced(FindAll(re, s, ci))

(***************************************************************************)
(* Python values                                                           *)
(***************************************************************************)
\* dict.get(key, default)
Get(d, key, default) == IF key \in DOMAIN d THEN d[key] ELSE default
\* the empty dict
EmptyDict == [k \in {} |-> None]

\* Seq -> set of its elements
Range(seq) == {seq[k] : k \in 1..Len(seq)}

RECURSIVE SelectSeqBy(_, _)
\* [x for x in seq if x in keep]
SelectSeqBy(seq, keep) ==
  IF seq = <<>> THEN <<>>
  ELSE (IF Head(seq) \in keep THEN <<Head(seq)>> ELSE <<>>) \o SelectSeqBy(Tail(seq), keep)

\* the orders in which iterating a Python set of strings can yield its elements
Orderings(S) ==
  {f \in [1..Cardinality(S) -> S] : \A a, b \in 1..Cardinality(S) : a # b => f[a] # f[b]}

(***************************************************************************)
(* Confidence arithmetic: one unit is 1/120                                *)
(***************************************************************************)
One == 120
Tenth == 12

\* SQLAgent.create_response
create_response(success, message, data, confidence, suggestions) ==
  [success |-> success, message |-> message, data |-> data,
   confidence |-> confidence, suggestions |-> suggestions]

(***************************************************************************)
(* DB2SyntaxValidatorAgent                                                 *)
(***************************************************************************)
Quote == Cls(FALSE, "'\"", FALSE, FALSE, FALSE, 1, 1, TRUE)
NotRParen1 == Cls(TRUE, ")", FALSE, FALSE, FALSE, 1, Inf, TRUE)
\* .* under re.DOTALL, .*? under re.DOTALL, and .* (no line feed)
AnyGreedy0 == Cls(TRUE, "", FALSE, FALSE, FALSE, 0, Inf, TRUE)
AnyLazy0 == Cls(TRUE, "", FALSE, FALSE, FALSE, 0, Inf, FALSE)
DotGreedy0 == Cls(TRUE, "\n", FALSE, FALSE, FALSE, 0, Inf, TRUE)

\* r'LIMIT\s+(\d+)'
LimitPattern == Sq(<<LI("LIMIT"), Sp1, Grp(1, Dg1)>>)
\* r'FETCH FIRST \1 ROWS ONLY'
LimitTemplate == <<TLit("FETCH FIRST "), TGrp(1), TLit(" ROWS ONLY")>>

\* strftime\s*\(\s*['\"]%X['\"]\s*,\s*
StrftimeHead(fmt) ==
  <<LI("strftime"), Sp0, L("("), Sp0, Quote, LI(fmt), Quote, Sp0, L(","), Sp0>>
\* date\s*\(\s*['\"]now['\"]\s*\)
DateNow(fn) == <<LI(fn), Sp0, L("("), Sp0, Quote, LI("now"), Quote, Sp0, L(")")>>
\* strftime('%X', column) = strftime('%X', date('now'))
StrftimeEqNow(fmt) ==
  Sq(StrftimeHead(fmt) \o <<Grp(1, NotRParen1), Sp0, L(")"), Sp0, L("="), Sp0>>
     \o StrftimeHead(fmt) \o DateNow("date") \o <<Sp0, L(")")>>)
\* strftime('%X', column)
StrftimeCall(fmt) == Sq(StrftimeHead(fmt) \o <<Grp(1, NotRParen1), Sp0, L(")")>>)

\* the (pattern, replacement) list of _validate_db2_syntax, in its order
sqlite_date_patterns ==
  << [re |-> StrftimeEqNow("%Y"),
      tpl |-> <<TLit("YEAR("), TGrp(1), TLit(") = YEAR(CURRENT DATE)")>>],
     [re |-> StrftimeEqNow("%m"),
      tpl |-> <<TLit("MONTH("), TGrp(1), TLit(") = MONTH(CURRENT DATE)")>>],
     [re |-> StrftimeCall("%Y"), tpl |-> <<TLit("YEAR("), TGrp(1), TLit(")")>>],
     [re |-> StrftimeCall("%m"), tpl |-> <<TLit("MONTH("), TGrp(1), TLit(")")>>],
     [re |-> Sq(DateNow("date")), tpl |-> <<TLit("CURRENT DATE")>>],
     [re |-> Sq(DateNow("datetime")), tpl |-> <<TLit("CURRENT TIMESTAMP")>>] >>

RECURSIVE ApplyDatePatterns(_, _)
\* the loop over sqlite_date_patterns: the first pattern that changes the
\* query is applied and the loop breaks
ApplyDatePatterns(corrected, k) ==
  IF k > Len(sqlite_date_patterns) THEN [q |-> corrected, issues |-> <<>>]
  ELSE LET Applied(p) == IF Found(Search(p.re, corrected, TRUE))
                         THEN Sub(p.re, p.tpl, corrected, TRUE) ELSE corrected
           Changed(new) ==
             IF new # corrected
             THEN [q |-> new, issues |-> <<"Converted SQLite date function to DB2">>]
             ELSE ApplyDatePatterns(corrected, k + 1)
       IN Changed(Applied(sqlite_date_patterns[k]))

\* r'DECIMAL\s*\(\s*([^,]+)\s*,\s*(\d+)\s*,\s*(\d+)\s*\)'
decimal_pattern ==
  Sq(<<LI("DECIMAL"), Sp0, L("("), Sp0,
       Grp(1, Cls(TRUE, ",", FALSE, FALSE, FALSE, 1, Inf, TRUE)), Sp0, L(","), Sp0,
       Grp(2, Dg1), Sp0, L(","), Sp0, Grp(3, Dg1), Sp0, L(")")>>)
\* r'CAST\s*\(\s*strftime\s*\([^)]+\)\s+AS\s+INTEGER\s*\)'
cast_strftime_pattern ==
  Sq(<<LI("CAST"), Sp0, L("("), Sp0, LI("strftime"), Sp0, L("("), NotRParen1, L(")"),
       Sp1, LI("AS"), Sp1, LI("INTEGER"), Sp0, L(")")>>)
\* r'FETCH\s+FIRST\s+\d+\s+ROWS?\s+ONLY'
fetch_pattern ==
  Sq(<<LI("FETCH"), Sp1, LI("FIRST"), Sp1, Dg1, Sp1, LI("ROW"),
       Cls(FALSE, "S", FALSE, FALSE, FALSE, 0, 1, TRUE), Sp1, LI("ONLY")>>)

\* DB2SyntaxValidatorAgent._validate_db2_syntax
validate_db2_syntax(query) ==
  LET Limit(hasLimit) ==
        [q |-> IF hasLimit THEN Sub(LimitPattern, LimitTemplate, query, TRUE) ELSE query,
         issues |-> IF hasLimit THEN <<"Converted LIMIT to FETCH FIRST (DB2 syntax)">>
                    ELSE <<>>]
      Checks(corrected, up) ==
        (IF Contains(up, "DECIMAL(") /\ ~Found(Search(decimal_pattern, corrected, TRUE))
         THEN <<"Invalid DECIMAL syntax. Use: DECIMAL(value, precision, scale)">>
         ELSE <<>>)
        \o (IF Contains(up, " JOIN ") /\ ~Contains(up, " ON ")
            THEN <<"JOIN clause missing ON condition">> ELSE <<>>)
        \o (IF Contains(up, "CAST(") /\ Found(Search(cast_strftime_pattern, corrected, TRUE))
            THEN <<"Converted SQLite CAST with strftime to DB2 date functions">> ELSE <<>>)
        \o (IF Contains(up, "FETCH FIRST") /\ ~Found(Search(fetch_pattern, corrected, TRUE))
            THEN <<"Invalid FETCH FIRST syntax. Use: FETCH FIRST n ROWS ONLY">> ELSE <<>>)
      Dates(i1, dp) ==
        [q |-> dp.q, issues |-> i1 \o dp.issues \o Checks(dp.q, Upper(dp.q))]
      Rest(c1) == Dates(c1.issues, ApplyDatePatterns(c1.q, 1))
  IN Rest(Limit(Contains(Upper(query), "LIMIT ")))

\* the function_mappings dict of _validate_db2_functions, in insertion order;
\* src is the pattern's source text, which the issue message quotes
function_mappings ==
  << [re |-> Sq(<<LI("SUBSTRING"), Sp0, L("(")>>), src |-> "SUBSTRING\\s*\\(",
      to |-> "SUBSTR("],
     [re |-> Sq(<<LI("DATEPART"), Sp0, L("(")>>), src |-> "DATEPART\\s*\\(",
      to |-> "EXTRACT("],
     [re |-> Sq(<<LI("GETDATE"), Sp0, L("("), Sp0, L(")")>>), src |-> "GETDATE\\s*\\(\\s*\\)",
      to |-> "CURRENT DATE"],
     [re |-> Sq(<<LI("NOW"), Sp0, L("("), Sp0, L(")")>>), src |-> "NOW\\s*\\(\\s*\\)",
      to |-> "CURRENT TIMESTAMP"] >>

RECURSIVE ApplyFunctionMappings(_, _)
ApplyFunctionMappings(corrected, k) ==
  IF k > Len(function_mappings) THEN [q |-> corrected, issues |-> <<>>]
  ELSE LET Noted(p, hit, rest) ==
             [q |-> rest.q,
              issues |-> (IF hit THEN <<"Converted function: " \o p.src \o " to " \o p.to>>
                          ELSE <<>>) \o rest.issues]
           Rest(p, hit, mapped) ==
             CASE Evaluated(mapped) -> Noted(p, hit, ApplyFunctionMappings(mapped, k + 1))
           Mapped(p, hit) ==
             Rest(p, hit, IF hit THEN Sub(p.re, <<TLit(p.to)>>, corrected, TRUE)
                          ELSE corrected)
           Tried(p) == Mapped(p, Found(Search(p.re, corrected, TRUE)))
       IN Tried(function_mappings[k])

\* DB2SyntaxValidatorAgent._validate_db2_functions
validate_db2_functions(query) == ApplyFunctionMappings(query, 1)

\* r'DATE\s*\+\s*\d+'
date_arith_pattern == Sq(<<LI("DATE"), Sp0, L("+"), Sp0, Dg1>>)

\* str.replace(old, new)
Replace(s, old, new) == Sub(L(old), <<TLit(new)>>, s, FALSE)

\* DB2SyntaxValidatorAgent._validate_db2_dates
validate_db2_dates(query) ==
  LET i1 == IF Found(Search(date_arith_pattern, query, TRUE))
            THEN <<"DB2 date arithmetic: Use DATE + n DAYS/MONTHS/YEARS">> ELSE <<>>
      cur == Contains(Upper(query), "CURDATE()")
      corrected == IF cur
                   THEN Replace(Replace(query, "CURDATE()", "CURRENT DATE"),
                                "curdate()", "CURRENT DATE")
                   ELSE query
  IN [q |-> corrected,
      issues |-> i1 \o (IF cur THEN <<"Converted CURDATE() to CURRENT DATE">> ELSE <<>>)]

\* r'--.*$' (re.MULTILINE) and r'/\*.*?\*/' (re.DOTALL)
line_comment_pattern == Sq(<<L("--"), DotGreedy0, Eol>>)
block_comment_pattern == Sq(<<L("/*"), AnyLazy0, L("*/")>>)
RemoveComments(query) ==
  Sub(block_comment_pattern, <<>>, Sub(line_comment_pattern, <<>>, query, FALSE), FALSE)

NotSpComma1 == Cls(TRUE, ",", FALSE, TRUE, FALSE, 1, Inf, TRUE)
\* (?:\s+(?:AS\s+)?(\w+))?
OptAlias(n) == Opt(Sq(<<Sp1, Opt(Sq(<<LI("AS"), Sp1>>)), Grp(n, Wd1)>>))
\* r'FROM\s+([^\s,]+)(?:\s+(?:AS\s+)?(\w+))?'
from_pattern == Sq(<<LI("FROM"), Sp1, Grp(1, NotSpComma1), OptAlias(2)>>)
\* r'JOIN\s+([^\s,]+)(?:\s+(?:AS\s+)?(\w+))?'
join_pattern == Sq(<<LI("JOIN"), Sp1, Grp(1, NotSpComma1), OptAlias(2)>>)

\* the list `tables` of _extract_tables before list(set(tables))
extract_tables_list(query) ==
  LET Names(clean, ms) == [k \in 1..Len(ms) |-> Strip(Group(clean, ms[k], 1))]
      Kept(fromNames) ==
        CASE Evaluated(fromNames) ->
          SelectSeqBy(fromNames,
            {t \in Range(fromNames) :
               Upper(t) \notin {"SELECT", "WHERE", "GROUP", "ORDER", "HAVING"}})
      Joined(joinNames) == CASE Evaluated(joinNames) -> joinNames
      Tables(clean) ==
        CASE Evaluated(clean) ->
          Kept(Names(clean, FindAll(from_pattern, clean, TRUE)))
          \o Joined(Names(clean, FindAll(join_pattern, clean, TRUE)))
  IN Tables(RemoveComments(query))

\* DB2SyntaxValidatorAgent._extract_tables: list(set(tables)); the order of
\* the result is the iteration order of a set of strings
extract_tables(query) == Orderings(Range(extract_tables_list(query)))

\* r'\b(\w+)\.(\w+)\b|\b(\w+)\b'
column_pattern ==
  Alt(<< Sq(<<Wb, Grp(1, Wd1), L("."), Grp(2, Wd1), Wb>>), Sq(<<Wb, Grp(3, Wd1), Wb>>) >>)

UpperAll(seq) == [k \in 1..Len(seq) |-> Upper(seq[k])]

\* the keys of a dict, as the set of them
Keys(d) == DOMAIN d

RECURSIVE ColumnIssues(_, _, _, _)
ColumnIssues(query, ms, k, columns_available) ==
  IF k > Len(ms) THEN [issues |-> <<>>, suggestions |-> <<>>]
  ELSE
    LET Issue(table, column, missing, similar, rest) ==
          [issues |-> (IF missing
                       THEN <<"Column '" \o column \o "' not found in table '" \o table \o "'">>
                       ELSE <<>>) \o rest.issues,
           suggestions |-> (IF similar # <<>>
                            THEN <<"Did you mean: " \o JoinStr(SubSeq(similar, 1,
                                      IF Len(similar) < 3 THEN Len(similar) ELSE 3), ", ") \o "?">>
                            ELSE <<>>) \o rest.suggestions]
        Similar(table, column, table_cols, missing) ==
          Issue(table, column, missing,
                IF missing
                THEN SelectSeqBy(table_cols,
                       {c \in Range(table_cols) :
                          Contains(Upper(c), Upper(column)) \/ Contains(Upper(column), Upper(c))})
                ELSE <<>>,
                ColumnIssues(query, ms, k + 1, columns_available))
        Missing(table, column, known, table_cols) ==
          Similar(table, column, table_cols,
                  known /\ Upper(column) \notin Range(UpperAll(table_cols)))
        Known(table, column, known) ==
          Missing(table, column, known,
                  IF known THEN Get(columns_available, Upper(table), <<>>) ELSE <<>>)
        Reference(table, column) ==
          Known(table, column,
                column # None /\ Upper(table) \in {Upper(t) : t \in Keys(columns_available)})
    IN Reference(Group(query, ms[k], 1), Group(query, ms[k], 2))

\* DB2SyntaxValidatorAgent._validate_columns
validate_columns(query, columns_available) ==
  ColumnIssues(query, FindAll(column_pattern, query, FALSE), 1, columns_available)

RECURSIVE TableIssues(_, _, _)
TableIssues(tables_used, k, tables_available) ==
  IF k > Len(tables_used) THEN [issues |-> <<>>, suggestions |-> <<>>]
  ELSE LET rest == TableIssues(tables_used, k + 1, tables_available)
           bad == Upper(tables_used[k]) \notin Range(UpperAll(tables_available))
       IN [issues |-> (IF bad THEN <<"Table '" \o tables_used[k]
                                      \o "' not found in available tables">> ELSE <<>>)
                      \o rest.issues,
           suggestions |-> (IF bad THEN <<"Available tables: "
                                           \o JoinStr(tables_available, ", ")>> ELSE <<>>)
                           \o rest.suggestions]

Prefixed(prefix, issues) == [k \in 1..Len(issues) |-> prefix \o issues[k]]

CountWith(seq, word) == Cardinality({k \in 1..Len(seq) : Contains(seq[k], word)})

\* an issue that is no table or column miss
IsCritical(issue) ==
  ~\E word \in {"table", "column", "not found"} : Contains(Lower(issue), word)
ValidatorSuccessWithoutImprovements(issues, corrections) ==
  {k \in 1..Len(issues) : IsCritical(issues[k])} = {}
\* success: no critical syntax issue, or at least one correction
ValidatorSuccess(issues, corrections) ==
  LET critical_issues == {k \in 1..Len(issues) : IsCritical(issues[k])}
      has_improvements == Len(corrections) > 0
  IN critical_issues = {} \/ has_improvements

\* DB2SyntaxValidatorAgent.process; tables_used is the list list(set(tables))
\* came out as (one of extract_tables(corrected query))
ValidatorProcess(input_data, context, tables_used) ==
  LET sql_query == Get(input_data, "sql_query", "")
      Respond(s1, s2, s3, tb, cl) ==
        LET corrected_query == s3.q
            corrections == Prefixed("DB2 Syntax: ", s1.issues)
                           \o Prefixed("Functions: ", s2.issues)
                           \o Prefixed("Date/Time: ", s3.issues)
            issues == s1.issues \o s2.issues \o s3.issues \o tb.issues \o cl.issues
            suggestions == tb.suggestions \o cl.suggestions
            confidence == Max(Tenth, Min(One, One - Len(issues) * Tenth))
            step_details ==
              [syntax_corrections |-> CountWith(corrections, "Syntax"),
               function_corrections |-> CountWith(corrections, "Functions"),
               date_corrections |-> CountWith(corrections, "Date"),
               table_issues |-> Len(tb.issues),
               column_issues |-> Len(cl.issues),
               total_changes |-> Len(corrections)]
        IN CASE Evaluated(tb) /\ Evaluated(cl) ->
           create_response(
             ValidatorSuccess(issues, corrections),
             IF corrections # <<>>
             THEN "Syntax validation complete - " \o ToString(step_details.total_changes)
                  \o " corrections applied"
             ELSE "Syntax validation complete - no issues found",
             [original_query |-> sql_query, validated_query |-> corrected_query,
              issues |-> issues, tables_used |-> tables_used,
              corrections |-> corrections, step_details |-> step_details],
             confidence, suggestions)
      Schema(s1, s2, s3) ==
        CASE Evaluated(s3) ->
          Respond(s1, s2, s3, TableIssues(tables_used, 1, context.tables_available),
                  validate_columns(s3.q, context.columns_available))
      Dates(s1, s2) == CASE Evaluated(s2) -> Schema(s1, s2, validate_db2_dates(s2.q))
      Functions(s1) == CASE Evaluated(s1) -> Dates(s1, validate_db2_functions(s1.q))
  IN IF ~Truthy(sql_query)
     THEN create_response(FALSE, "No SQL query provided", EmptyDict, 0, <<>>)
     ELSE Functions(validate_db2_syntax(sql_query))

\* the validated query DB2SyntaxValidatorAgent.process extracts its tables from
CorrectedQuery(sql_query) ==
  LET Dates(s2) == CASE Evaluated(s2) -> validate_db2_dates(s2.q).q
      Functions(s1) == CASE Evaluated(s1) -> Dates(validate_db2_functions(s1.q))
  IN Functions(validate_db2_syntax(sql_query))

(***************************************************************************)
(* WhereClauseEnhancerAgent                                                *)
(***************************************************************************)
\* any(word in text for word in words)
AnyIn(text, words) == \E w \in words : Contains(text, w)

\* Python slices and match positions are 0-based: s[a:b], m.start(), m.end()
Slice(s, a, b) == SubSeq(s, a + 1, b)
MStart(m) == m.st - 1
MEnd(m) == m.e - 1

Dg11 == Cls(FALSE, "", FALSE, FALSE, TRUE, 1, 1, TRUE)
\* r'q(\d)|quarter (\d)'
quarter_pattern == Alt(<<Sq(<<L("q"), Grp(1, Dg11)>>), Sq(<<L("quarter "), Grp(2, Dg11)>>)>>)
\* r'20\d{2}'
year_pattern == Sq(<<L("20"), Cls(FALSE, "", FALSE, FALSE, TRUE, 2, 2, TRUE)>>)

\* a dict built by conditional assignments: the keys whose condition holds
DictOf(entries) ==
  LET on == {i \in 1..Len(entries) : entries[i].on}
  IN [k \in {entries[i].key : i \in on} |->
        entries[CHOOSE i \in on : entries[i].key = k].val]

\* WhereClauseEnhancerAgent._detect_time_context
detect_time_context(question) ==
  LET Detected(question_lower, quarter_match, year_match) ==
        DictOf(<<
          [key |-> "current_period", val |-> TRUE,
           on |-> AnyIn(question_lower,
                    {"current", "this month", "this quarter", "today", "now", "recent"})],
          [key |-> "current_year", val |-> TRUE,
           on |-> AnyIn(question_lower, {"this year", "current year", "ytd", "year to date"})],
          [key |-> "quarter",
           val |-> IF Group(question_lower, quarter_match, 1) # None
                   THEN Group(question_lower, quarter_match, 1)
                   ELSE Group(question_lower, quarter_match, 2),
           on |-> Found(quarter_match)],
          [key |-> "year", val |-> Group0(question, year_match), on |-> Found(year_match)],
          [key |-> "ytd", val |-> TRUE,
           on |-> Contains(question_lower, "ytd") \/ Contains(question_lower, "year to date")],
          [key |-> "previous_period", val |-> TRUE,
           on |-> AnyIn(question_lower,
                    {"last month", "previous quarter", "last year", "historical"})],
          [key |-> "closed_deals", val |-> TRUE,
           on |-> AnyIn(question_lower, {"closed", "won", "lost", "completed"})] >>)
      Lowered(question_lower) ==
        Detected(question_lower, Search(quarter_pattern, question_lower, FALSE),
                 Search(year_pattern, question, FALSE))
  IN Lowered(Lower(question))

\* the regions dict of _detect_geographic_context, in insertion order
regions ==
  << [region |-> "americas",
      keywords |-> {"americas", "america", "us", "usa", "canada", "latam"}],
     [region |-> "emea", keywords |-> {"emea", "europe", "middle east", "africa"}],
     [region |-> "apac", keywords |-> {"apac", "asia", "pacific", "asia pacific"}],
     [region |-> "japan", keywords |-> {"japan", "jpn"}] >>
countries == <<"usa", "uk", "germany", "france", "china", "india", "brazil", "canada">>

\* WhereClauseEnhancerAgent._detect_geographic_context
detect_geographic_context(question) ==
  LET rhits == {k \in 1..Len(regions) : AnyIn(question, regions[k].keywords)}
      chits == {k \in 1..Len(countries) : Contains(question, countries[k])}
  IN DictOf(<<
       [key |-> "region", on |-> rhits # {},
        val |-> IF rhits # {} THEN Upper(regions[MinOf(rhits)].region) ELSE None],
       [key |-> "country", on |-> chits # {},
        val |-> IF chits # {} THEN Upper(countries[MinOf(chits)]) ELSE None] >>)

\* r'ut(\d+)'
ut_pattern == Sq(<<L("ut"), Grp(1, Dg1)>>)

\* WhereClauseEnhancerAgent._detect_product_context
detect_product_context(question) ==
  LET consulting == Contains(question, "consulting")
      software == Contains(question, "software")
      cloud == Contains(question, "cloud")
      ai == Contains(question, "ai") \/ Contains(question, "genai")
            \/ Contains(question, "gen ai")
      Detected(ut_match) ==
        DictOf(<<
          [key |-> "type", on |-> consulting \/ software \/ cloud,
           val |-> IF consulting THEN "CONSULTING"
                   ELSE IF software THEN "SOFTWARE" ELSE "CLOUD"],
          [key |-> "ai_focus", on |-> ~consulting /\ ~software /\ ~cloud /\ ai, val |-> TRUE],
          [key |-> "ut_level", on |-> Found(ut_match),
           val |-> "UT" \o (IF Found(ut_match) THEN Group(question, ut_match, 1) ELSE "")] >>)
  IN Detected(Search(ut_pattern, question, FALSE))

\* r'WHERE\s+'
where_pattern_enh == Sq(<<LI("WHERE"), Sp1>>)
\* r'\s+(GROUP\s+BY|ORDER\s+BY|HAVING|UNION|EXCEPT|INTERSECT|$)'
where_end_pattern ==
  Sq(<<Sp1, Grp(1, Alt(<<Sq(<<LI("GROUP"), Sp1, LI("BY")>>), Sq(<<LI("ORDER"), Sp1, LI("BY")>>),
                        LI("HAVING"), LI("UNION"), LI("EXCEPT"), LI("INTERSECT"), Eos>>))>>)
\* r'FROM\s+[^\s]+(?:\s+[^\s]+)*\s*'; after the greedy [^\s]+ the tail
\* (?:\s+[^\s]+)*\s* takes the whole rest of the text, as .* does
from_clause_pattern == Sq(<<LI("FROM"), Sp1, NonSp1, AnyGreedy0>>)
\* r'\s+(JOIN|GROUP\s+BY|ORDER\s+BY|HAVING)'
next_clause_pattern ==
  Sq(<<Sp1, Grp(1, Alt(<<LI("JOIN"), Sq(<<LI("GROUP"), Sp1, LI("BY")>>),
                        Sq(<<LI("ORDER"), Sp1, LI("BY")>>), LI("HAVING")>>))>>)

\* WhereClauseEnhancerAgent._find_where_end
find_where_end(query, start_pos) ==
  LET End(next_clause) ==
        IF Found(next_clause) THEN start_pos + MStart(next_clause) ELSE Len(query)
  IN End(Search(where_end_pattern, Slice(query, start_pos, Len(query)), TRUE))

\* WhereClauseEnhancerAgent._add_where_condition
add_where_condition(query, condition, where_match) ==
  LET NewWhere(existing_where) ==
        IF existing_where # "" /\ ~StartsWith(existing_where, "(")
        THEN existing_where \o " AND " \o condition
        ELSE condition
      Extended(where_end) ==
        Slice(query, 0, MEnd(where_match))
        \o NewWhere(Strip(Slice(query, MEnd(where_match), where_end)))
        \o Slice(query, where_end, Len(query))
      Inserted(insert_pos) ==
        Slice(query, 0, insert_pos) \o " WHERE " \o condition \o " "
        \o Slice(query, insert_pos, Len(query))
      Before(pos0, next_clause) ==
        Inserted(IF Found(next_clause) THEN pos0 + MStart(next_clause) ELSE pos0)
      AfterFrom(from_match) ==
        IF Found(from_match)
        THEN Before(MEnd(from_match),
                    Search(next_clause_pattern,
                           Slice(query, MEnd(from_match), Len(query)), TRUE))
        ELSE query \o " WHERE " \o condition
  IN IF Found(where_match)
     THEN Extended(find_where_end(query, MEnd(where_match)))
     ELSE AfterFrom(Search(from_clause_pattern, query, TRUE))

HasCTE(query) == Contains(Upper(query), "WITH ")

\* WhereClauseEnhancerAgent._add_time_filters
add_time_filters(query, time_filters, context) ==
  LET tf(k) == Get(time_filters, k, FALSE)
      Filtered(filter) ==
        [q |-> IF filter.condition = None THEN query
               ELSE add_where_condition(query, filter.condition,
                                        Search(where_pattern_enh, query, TRUE)),
         enh |-> filter.enh]
  IN IF HasCTE(query)
     THEN [q |-> query,
           enh |-> (IF tf("current_year") \/ tf("ytd")
                    THEN <<"Confirmed current year analysis context">> ELSE <<>>)
                   \o (IF tf("current_period")
                       THEN <<"Confirmed current period analysis context">> ELSE <<>>)
                   \o (IF tf("closed_deals")
                       THEN <<"Confirmed closed deals temporal analysis">> ELSE <<>>)]
     ELSE Filtered(
       IF tf("current_period")
       THEN [condition |->
               IF context.db_type = "DB2"
               THEN "YEAR = YEAR(CURRENT DATE) AND QUARTER = QUARTER(CURRENT DATE)"
               ELSE "strftime('%Y', date('now')) = CAST(YEAR AS TEXT) AND ((CAST(strftime('%m', date('now')) AS INTEGER) - 1) / 3 + 1) = QUARTER",
             enh |-> <<"Added current quarter filter">>]
       ELSE IF "quarter" \in DOMAIN time_filters /\ "year" \in DOMAIN time_filters
       THEN [condition |-> "YEAR = " \o time_filters["year"]
                           \o " AND QUARTER = " \o time_filters["quarter"],
             enh |-> <<"Added Q" \o time_filters["quarter"] \o " "
                       \o time_filters["year"] \o " filter">>]
       ELSE IF tf("ytd")
       THEN [condition |->
               IF context.db_type = "DB2" THEN "YEAR = YEAR(CURRENT DATE)"
               ELSE "YEAR = CAST(strftime('%Y', date('now')) AS INTEGER)",
             enh |-> <<"Added Year-to-Date filter">>]
       ELSE [condition |-> None, enh |-> <<>>])

\* WhereClauseEnhancerAgent._add_geographic_filters
add_geographic_filters(query, geo_filters, context) ==
  LET hasRegion == "region" \in DOMAIN geo_filters
      hasCountry == "country" \in DOMAIN geo_filters
      Filtered(filter) ==
        [q |-> IF filter.condition = None THEN query
               ELSE add_where_condition(query, filter.condition,
                                        Search(where_pattern_enh, query, TRUE)),
         enh |-> filter.enh]
  IN IF HasCTE(query)
     THEN [q |-> query,
           enh |-> (IF hasRegion
                    THEN <<"Confirmed " \o geo_filters["region"] \o " geographic scope">>
                    ELSE <<>>)
                   \o (IF hasCountry
                       THEN <<"Confirmed " \o geo_filters["country"] \o " country focus">>
                       ELSE <<>>)]
     ELSE Filtered(
       IF hasRegion
       THEN [condition |-> "GEOGRAPHY = '" \o geo_filters["region"] \o "'",
             enh |-> <<"Added " \o geo_filters["region"] \o " region filter">>]
       ELSE IF hasCountry
       THEN [condition |-> "COUNTRY = '" \o geo_filters["country"] \o "'",
             enh |-> <<"Added " \o geo_filters["country"] \o " country filter">>]
       ELSE [condition |-> None, enh |-> <<>>])

\* WhereClauseEnhancerAgent._add_product_filters
add_product_filters(query, product_filters, context) ==
  LET prod_type == Get(product_filters, "type", "")
      ai == Get(product_filters, "ai_focus", FALSE)
      Confirmed(up) ==
        IF prod_type # ""
           /\ \/ (Contains(prod_type, "CONSULTING") /\ Contains(up, "CONSULTING"))
              \/ (Contains(prod_type, "SOFTWARE") /\ Contains(up, "SOFTWARE"))
        THEN <<"Confirmed " \o prod_type \o " table selection">> ELSE <<>>
  IN [q |-> IF ai
            THEN add_where_condition(query,
                   "(IBM_GEN_AI_IND = 1 OR PARTNER_GEN_AI_IND = 1)",
                   Search(where_pattern_enh, query, TRUE))
            ELSE query,
      enh |-> Confirmed(Upper(query))
              \o (IF ai THEN <<"Added AI/GenAI filter">> ELSE <<>>)
              \o (IF "ut_level" \in DOMAIN product_filters
                  THEN <<"Ready to filter by " \o product_filters["ut_level"]
                         \o " (specific value needed)">>
                  ELSE <<>>)]

\* WhereClauseEnhancerAgent._analyze_query_for_suggestions
analyze_query_for_suggestions(query, question) ==
  LET Suggestions(up, ql) ==
        (IF ~AnyIn(up, {"YEAR", "QUARTER", "MONTH", "DATE"})
            /\ AnyIn(ql, {"current", "this year", "ytd", "recent"})
         THEN <<"Added current year context awareness">> ELSE <<>>)
        \o (IF ~Contains(up, "GEOGRAPHY") /\ ~Contains(up, "MARKET")
               /\ AnyIn(ql, {"americas", "emea", "apac", "region", "geography"})
            THEN <<"Noted geographic scope requirement">> ELSE <<>>)
        \o (IF Contains(up, "SALES_STAGE")
            THEN (IF Contains(ql, "won") /\ Contains(ql, "lost")
                  THEN <<"Confirmed closed deals focus (Won/Lost)">>
                  ELSE IF Contains(ql, "active") \/ Contains(ql, "open")
                  THEN <<"Query ready for active pipeline analysis">> ELSE <<>>)
            ELSE <<>>)
        \o (IF Contains(up, "WIN_RATE") \/ Contains(up, "RATE")
            THEN <<"Enhanced with win rate calculation methodology">> ELSE <<>>)
        \o (IF Contains(up, "DECIMAL") \/ Contains(up, "ROUND")
            THEN <<"Applied financial precision formatting">> ELSE <<>>)
      OrDefault(all) ==
        IF all = <<>>
        THEN <<"Query structure validated for business intelligence reporting">>
        ELSE all
  IN OrDefault(Suggestions(Upper(query), Lower(question)))

\* WhereClauseEnhancerAgent._add_business_filters
add_business_filters(query, question, context) ==
  IF HasCTE(query)
  THEN [q |-> query, enh |-> analyze_query_for_suggestions(query, question)]
  ELSE
    LET Latest(where_match, q2, enh, latest) ==
          [q |-> IF latest
                 THEN add_where_condition(q2,
                        "WEEK = (SELECT MAX(WEEK) FROM PROD_MQT_CONSULTING_PIPELINE WHERE YEAR = (SELECT MAX(YEAR) FROM PROD_MQT_CONSULTING_PIPELINE))",
                        where_match)
                 ELSE q2,
           enh |-> enh \o (IF latest THEN <<"Added latest week filter">> ELSE <<>>)]
        Week(where_match, q2, enh) ==
          CASE Evaluated(q2) ->
            Latest(where_match, q2, enh,
                   (Contains(question, "latest") \/ Contains(question, "current"))
                   /\ Contains(context.schema_info, "WEEK")
                   /\ ~Contains(Upper(q2), "MAX(WEEK)"))
        Snapshot(where_match, q1, enh, snapshot) ==
          Week(where_match,
               IF snapshot THEN add_where_condition(q1, "SNAPSHOT_LEVEL = 'W'", where_match)
               ELSE q1,
               enh \o (IF snapshot THEN <<"Added weekly snapshot filter">> ELSE <<>>))
        Level(where_match, q1, enh) ==
          CASE Evaluated(q1) ->
            Snapshot(where_match, q1, enh,
                     Contains(context.schema_info, "SNAPSHOT_LEVEL")
                     /\ ~Contains(Upper(q1), "SNAPSHOT_LEVEL"))
        Active(where_match, active) ==
          Level(where_match,
                IF active
                THEN add_where_condition(query, "SALES_STAGE NOT IN ('Won', 'Lost')",
                                         where_match)
                ELSE query,
                IF active THEN <<"Added active pipeline filter (excluding Won/Lost)">>
                ELSE <<>>)
        Stage(up) ==
          Active(Search(where_pattern_enh, query, TRUE),
                 AnyIn(question, {"pipeline", "active", "open", "forecast"})
                 /\ Contains(up, "SALES_STAGE") /\ ~Contains(up, "WON"))
    IN Stage(Upper(query))

\* WhereClauseEnhancerAgent.process
EnhancerProcess(input_data, context) ==
  LET sql_query == Get(input_data, "validated_query", Get(input_data, "sql_query", ""))
      Respond(time_filters, geo_filters, product_filters, t, g, p, b) ==
        LET enhancements == t.enh \o g.enh \o p.enh \o b.enh
            context_detected == [time |-> DOMAIN time_filters # {},
                                 geographic |-> DOMAIN geo_filters # {},
                                 product |-> DOMAIN product_filters # {}]
            step_details == [time_filters |-> Len(t.enh), geographic_filters |-> Len(g.enh),
                             product_filters |-> Len(p.enh), business_filters |-> Len(b.enh),
                             total_enhancements |-> Len(enhancements),
                             context_detected |-> context_detected]
        IN create_response(
             TRUE,
             "Enhanced WHERE clause with " \o ToString(Len(enhancements))
               \o " contextual filters",
             [original_query |-> sql_query, enhanced_query |-> b.q,
              enhancements |-> enhancements,
              filters_added |-> [time |-> DOMAIN time_filters # {},
                                 geographic |-> DOMAIN geo_filters # {},
                                 product |-> DOMAIN product_filters # {},
                                 business |-> b.enh # <<>>],
              step_details |-> step_details],
             IF enhancements # <<>> THEN 8 * Tenth ELSE 6 * Tenth, <<>>)
      Business(question, time_filters, geo_filters, product_filters, t, g, p) ==
        CASE Evaluated(p) ->
          Respond(time_filters, geo_filters, product_filters, t, g, p,
                  add_business_filters(p.q, question, context))
      Product(question, time_filters, geo_filters, product_filters, t, g) ==
        CASE Evaluated(g) ->
          Business(question, time_filters, geo_filters, product_filters, t, g,
                   IF DOMAIN product_filters # {}
                   THEN add_product_filters(g.q, product_filters, context)
                   ELSE [q |-> g.q, enh |-> <<>>])
      Geographic(question, time_filters, geo_filters, t) ==
        CASE Evaluated(t) ->
          Product(question, time_filters, geo_filters, detect_product_context(question), t,
                  IF DOMAIN geo_filters # {}
                  THEN add_geographic_filters(t.q, geo_filters, context)
                  ELSE [q |-> t.q, enh |-> <<>>])
      Time(question, time_filters) ==
        Geographic(question, time_filters, detect_geographic_context(question),
                   IF DOMAIN time_filters # {}
                   THEN add_time_filters(sql_query, time_filters, context)
                   ELSE [q |-> sql_query, enh |-> <<>>])
      Detect(question) == Time(question, detect_time_context(question))
  IN IF ~Truthy(sql_query)
     THEN create_response(FALSE, "No SQL query provided", EmptyDict, 0, <<>>)
     ELSE Detect(Lower(context.question))

(***************************************************************************)
(* sql_agent_orchestrator.py: the second copy of the pipeline.  Its        *)
(* process_with_agents, orchestrator and agents are the text of the        *)
(* agents package, except for the WhereClauseEnhancerAgent below.          *)
(***************************************************************************)
\* sql_agent_orchestrator.WhereClauseEnhancerAgent._detect_time_context
monolith_detect_time_context(question) ==
  LET Detected(quarter_match, year_match) ==
        DictOf(<<
          [key |-> "current_period", val |-> TRUE,
           on |-> AnyIn(question,
                    {"current", "this month", "this quarter", "today", "now"})],
          [key |-> "quarter",
           val |-> IF Group(question, quarter_match, 1) # None
                   THEN Group(question, quarter_match, 1)
                   ELSE Group(question, quarter_match, 2),
           on |-> Found(quarter_match)],
          [key |-> "year", val |-> Group0(question, year_match), on |-> Found(year_match)],
          [key |-> "ytd", val |-> TRUE,
           on |-> Contains(question, "ytd") \/ Contains(question, "year to date")],
          [key |-> "previous_period", val |-> TRUE,
           on |-> AnyIn(question, {"last month", "previous quarter", "last year"})] >>)
  IN Detected(Search(quarter_pattern, question, FALSE),
              Search(year_pattern, question, FALSE))

\* sql_agent_orchestrator.WhereClauseEnhancerAgent._add_time_filters
monolith_add_time_filters(query, time_filters, context) ==
  LET tf(k) == Get(time_filters, k, FALSE)
      Filtered(filter) ==
        [q |-> IF filter.condition = None THEN query
               ELSE add_where_condition(query, filter.condition,
                                        Search(where_pattern_enh, query, TRUE)),
         enh |-> filter.enh]
  IN Filtered(
       IF tf("current_period")
       THEN [condition |->
               IF context.db_type = "DB2"
               THEN "YEAR = YEAR(CURRENT DATE) AND QUARTER = QUARTER(CURRENT DATE)"
               ELSE "strftime('%Y', date('now')) = CAST(YEAR AS TEXT) AND ((CAST(strftime('%m', date('now')) AS INTEGER) - 1) / 3 + 1) = QUARTER",
             enh |-> <<"Added current quarter filter">>]
       ELSE IF "quarter" \in DOMAIN time_filters /\ "year" \in DOMAIN time_filters
       THEN [condition |-> "YEAR = " \o time_filters["year"]
                           \o " AND QUARTER = " \o time_filters["quarter"],
             enh |-> <<"Added Q" \o time_filters["quarter"] \o " "
                       \o time_filters["year"] \o " filter">>]
       ELSE IF tf("ytd")
       THEN [condition |->
               IF context.db_type = "DB2" THEN "YEAR = YEAR(CURRENT DATE)"
               ELSE "YEAR = CAST(strftime('%Y', date('now')) AS INTEGER)",
             enh |-> <<"Added Year-to-Date filter">>]
       ELSE [condition |-> None, enh |-> <<>>])

\* sql_agent_orchestrator.WhereClauseEnhancerAgent._add_geographic_filters
monolith_add_geographic_filters(query, geo_filters, context) ==
  LET Filtered(filter) ==
        [q |-> IF filter.condition = None THEN query
               ELSE add_where_condition(query, filter.condition,
                                        Search(where_pattern_enh, query, TRUE)),
         enh |-> filter.enh]
  IN Filtered(
       IF "region" \in DOMAIN geo_filters
       THEN [condition |-> "GEOGRAPHY = '" \o geo_filters["region"] \o "'",
             enh |-> <<"Added " \o geo_filters["region"] \o " region filter">>]
       ELSE IF "country" \in DOMAIN geo_filters
       THEN [condition |-> "COUNTRY = '" \o geo_filters["country"] \o "'",
             enh |-> <<"Added " \o geo_filters["country"] \o " country filter">>]
       ELSE [condition |-> None, enh |-> <<>>])

\* sql_agent_orchestrator.WhereClauseEnhancerAgent._add_business_filters
monolith_add_business_filters(query, question, context) ==
  LET Latest(where_match, q2, enh, latest) ==
        [q |-> IF latest
               THEN add_where_condition(q2,
                      "WEEK = (SELECT MAX(WEEK) FROM PROD_MQT_CONSULTING_PIPELINE WHERE YEAR = (SELECT MAX(YEAR) FROM PROD_MQT_CONSULTING_PIPELINE))",
                      where_match)
               ELSE q2,
         enh |-> enh \o (IF latest THEN <<"Added latest week filter">> ELSE <<>>)]
      Week(where_match, q2, enh) ==
        CASE Evaluated(q2) ->
          Latest(where_match, q2, enh,
                 (Contains(question, "latest") \/ Contains(question, "current"))
                 /\ Contains(context.schema_info, "WEEK")
                 /\ ~Contains(Upper(q2), "MAX(WEEK)"))
      Snapshot(where_match, q1, enh, snapshot) ==
        Week(where_match,
             IF snapshot THEN add_where_condition(q1, "SNAPSHOT_LEVEL = 'W'", where_match)
             ELSE q1,
             enh \o (IF snapshot THEN <<"Added weekly snapshot filter">> ELSE <<>>))
      Level(where_match, q1, enh) ==
        CASE Evaluated(q1) ->
          Snapshot(where_match, q1, enh,
                   Contains(context.schema_info, "SNAPSHOT_LEVEL")
                   /\ ~Contains(Upper(q1), "SNAPSHOT_LEVEL"))
      Active(where_match, active) ==
        Level(where_match,
              IF active
              THEN add_where_condition(query, "SALES_STAGE NOT IN ('Won', 'Lost')",
                                       where_match)
              ELSE query,
              IF active THEN <<"Added active pipeline filter (excluding Won/Lost)">>
              ELSE <<>>)
      Stage(up) ==
        Active(Search(where_pattern_enh, query, TRUE),
               AnyIn(question, {"pipeline", "active", "open", "forecast"})
               /\ Contains(up, "SALES_STAGE") /\ ~Contains(up, "WON"))
  IN Stage(Upper(query))

\* sql_agent_orchestrator.WhereClauseEnhancerAgent.process
MonolithEnhancerProcess(input_data, context) ==
  LET sql_query == Get(input_data, "validated_query", Get(input_data, "sql_query", ""))
      Respond(time_filters, geo_filters, product_filters, t, g, p, b) ==
        LET enhancements == t.enh \o g.enh \o p.enh \o b.enh
            context_detected == [time |-> DOMAIN time_filters # {},
                                 geographic |-> DOMAIN geo_filters # {},
                                 product |-> DOMAIN product_filters # {}]
            step_details == [time_filters |-> Len(t.enh), geographic_filters |-> Len(g.enh),
                             product_filters |-> Len(p.enh), business_filters |-> Len(b.enh),
                             total_enhancements |-> Len(enhancements),
                             context_detected |-> context_detected]
        IN create_response(
             TRUE,
             "Enhanced WHERE clause with " \o ToString(Len(enhancements))
               \o " contextual filters",
             [original_query |-> sql_query, enhanced_query |-> b.q,
              enhancements |-> enhancements,
              filters_added |-> [time |-> DOMAIN time_filters # {},
                                 geographic |-> DOMAIN geo_filters # {},
                                 product |-> DOMAIN product_filters # {},
                                 business |-> b.enh # <<>>],
              step_details |-> step_details],
             IF enhancements # <<>> THEN 8 * Tenth ELSE 6 * Tenth, <<>>)
      Business(question, time_filters, geo_filters, product_filters, t, g, p) ==
        CASE Evaluated(p) ->
          Respond(time_filters, geo_filters, product_filters, t, g, p,
                  monolith_add_business_filters(p.q, question, context))
      Product(question, time_filters, geo_filters, product_filters, t, g) ==
        CASE Evaluated(g) ->
          Business(question, time_filters, geo_filters, product_filters, t, g,
                   IF DOMAIN product_filters # {}
                   THEN add_product_filters(g.q, product_filters, context)
                   ELSE [q |-> g.q, enh |-> <<>>])
      Geographic(question, time_filters, geo_filters, t) ==
        CASE Evaluated(t) ->
          Product(question, time_filters, geo_filters, detect_product_context(question), t,
                  IF DOMAIN geo_filters # {}
                  THEN monolith_add_geographic_filters(t.q, geo_filters, context)
                  ELSE [q |-> t.q, enh |-> <<>>])
      Time(question, time_filters) ==
        Geographic(question, time_filters, detect_geographic_context(question),
                   IF DOMAIN time_filters # {}
                   THEN monolith_add_time_filters(sql_query, time_filters, context)
                   ELSE [q |-> sql_query, enh |-> <<>>])
      Detect(question) == Time(question, monolith_detect_time_context(question))
  IN IF ~Truthy(sql_query)
     THEN create_response(FALSE, "No SQL query provided", EmptyDict, 0, <<>>)
     ELSE Detect(Lower(context.question))

(***************************************************************************)
(* QueryOptimizerAgent                                                     *)
(***************************************************************************)
\* QueryOptimizerAgent.process
OptimizerProcess(input_data, context) ==
  LET sql_query == Get(input_data, "enhanced_query", Get(input_data, "sql_query", ""))
      Respond(optimized_query, up2, optimizations) ==
        create_response(
          TRUE,
          "Query optimization complete - " \o ToString(Len(optimizations))
            \o " improvements applied",
          [original_query |-> sql_query, optimized_query |-> optimized_query,
           optimizations |-> optimizations,
           step_details |->
             [mqt_optimization |-> Contains(optimized_query, "PROD_MQT"),
              select_optimization |-> ~Contains(up2, "SELECT *"),
              limit_added |-> Contains(up2, "FETCH FIRST") \/ Contains(up2, "LIMIT"),
              where_present |-> Contains(up2, "WHERE"),
              joins_present |-> Contains(up2, " JOIN "),
              total_optimizations |-> Len(optimizations)]],
          IF optimizations # <<>> THEN 9 * Tenth ELSE 7 * Tenth, <<>>)
      Indexes(up, limit, optimized_query, up2) ==
        Respond(optimized_query, up2,
          (IF Contains(sql_query, "PROD_MQT")
           THEN <<"Using MQT (Materialized Query Tables) for optimal performance">>
           ELSE <<>>)
          \o (IF Contains(up, "SELECT *")
              THEN <<"Consider selecting specific columns instead of SELECT *">>
              ELSE <<>>)
          \o (IF limit THEN <<"Added row limit to prevent large result sets">> ELSE <<>>)
          \o (IF Contains(up2, "WHERE")
              THEN <<"WHERE clause present - ensure indexes on filter columns">> ELSE <<>>)
          \o (IF Contains(up2, " JOIN ")
              THEN <<"JOINs detected - verify proper join conditions and indexes">>
              ELSE <<>>))
      Limited(up, limit, optimized_query) ==
        Indexes(up, limit, optimized_query, Upper(optimized_query))
      Limit(up, limit) ==
        Limited(up, limit,
                IF limit
                THEN sql_query \o (IF context.db_type = "DB2"
                                   THEN " FETCH FIRST 1000 ROWS ONLY"
                                   ELSE " LIMIT 1000")
                ELSE sql_query)
      Analyze(up) ==
        Limit(up, /\ ~Contains(up, "FETCH FIRST") /\ ~Contains(up, "LIMIT")
                  /\ ~AnyIn(up, {"SUM(", "COUNT(", "AVG(", "MAX(", "MIN("}))
  IN Analyze(Upper(sql_query))

(***************************************************************************)
(* Lists and insertion-ordered dicts                                       *)
(***************************************************************************)
\* the items of seq at the positions P, in order
AtPositions(seq, P) ==
  LET idx == SortedSeq(P) IN [i \in 1..Len(idx) |-> seq[idx[i]]]
\* the items of seq without repetitions, each at its first position
Uniq(seq) == AtPositions(seq, {k \in 1..Len(seq) : \A j \in 1..(k - 1) : seq[j] # seq[k]})

\* a dict as the sequence of its items [k, v] in insertion order
ODKeys(d) == [i \in 1..Len(d) |-> d[i].k]
ODHas(d, key) == \E i \in 1..Len(d) : d[i].k = key
ODGet(d, key, default) ==
  IF ODHas(d, key) THEN d[CHOOSE i \in 1..Len(d) : d[i].k = key].v ELSE default
\* the dict after d[k] = v for each pair of assignments in turn: a key keeps
\* the position of its first assignment and the value of its last
ODFromAssignments(pairs) ==
  LET keys == Uniq([i \in 1..Len(pairs) |-> pairs[i].k])
  IN [i \in 1..Len(keys) |->
       [k |-> keys[i],
        v |-> pairs[MaxOf({j \in 1..Len(pairs) : pairs[j].k = keys[i]})].v]]

(***************************************************************************)
(* ColumnValidationAgent                                                   *)
(***************************************************************************)
NotSQuote0 == Cls(TRUE, "'", FALSE, FALSE, FALSE, 0, Inf, TRUE)
NotDQuote0 == Cls(TRUE, "\"", FALSE, FALSE, FALSE, 0, Inf, TRUE)
\* r"'[^']*'" and r'"[^"]*"'
single_quoted_pattern == Sq(<<L("'"), NotSQuote0, L("'")>>)
double_quoted_pattern == Sq(<<L("\""), NotDQuote0, L("\"")>>)

\* clean_query of _extract_column_references: comments removed, string
\* literals emptied
CleanQuery(query) ==
  Sub(double_quoted_pattern, <<TLit("\"\"")>>,
      Sub(single_quoted_pattern, <<TLit("''")>>, RemoveComments(query), FALSE), FALSE)

\* r'WITH\s+(\w+)\s+AS\s*\((.*?)\)(?=\s*(?:,|SELECT))' (IGNORECASE | DOTALL)
cte_full_pattern ==
  Sq(<<LI("WITH"), Sp1, Grp(1, Wd1), Sp1, LI("AS"), Sp0, L("("), Grp(2, AnyLazy0), L(")"),
       Look(Sq(<<Sp0, Alt(<<L(","), LI("SELECT")>>)>>))>>)
\* cte_names; cte_columns is built next to it and never read
CteNames(clean) ==
  LET Names(ms) == {Upper(Group(clean, ms[k], 1)) : k \in 1..Len(ms)}
  IN Names(FindAll(cte_full_pattern, clean, TRUE))

\* r'FROM\s+(\w+)(?:\s+(?:AS\s+)?(\w+))?|JOIN\s+(\w+)(?:\s+(?:AS\s+)?(\w+))?'
table_pattern ==
  Alt(<<Sq(<<LI("FROM"), Sp1, Grp(1, Wd1), OptAlias(2)>>),
        Sq(<<LI("JOIN"), Sp1, Grp(3, Wd1), OptAlias(4)>>)>>)
\* a or b
OrElse(a, b) == IF Truthy(a) THEN a ELSE b

\* the (table, alias) pairs of the table references that are not CTE names
TableRefs(clean) ==
  LET Pairs(ms) ==
        [k \in 1..Len(ms) |->
           [table |-> OrElse(Group(clean, ms[k], 1), Group(clean, ms[k], 3)),
            alias |-> OrElse(Group(clean, ms[k], 2), Group(clean, ms[k], 4))]]
      NotCtes(all, ctes) ==
        CASE Evaluated(all) /\ Evaluated(ctes) ->
          AtPositions(all, {k \in 1..Len(all) : Upper(all[k].table) \notin ctes})
  IN NotCtes(Pairs(FindAll(table_pattern, clean, TRUE)), CteNames(clean))

\* primary_table: the first table found, None when there is none
PrimaryTable(refs) == IF refs = <<>> THEN None ELSE Upper(refs[1].table)

\* table_aliases.get(table_ref, table_ref): the last table given that alias
ResolveAlias(refs, table_ref) ==
  LET hits == {k \in 1..Len(refs) : Truthy(refs[k].alias) /\ Upper(refs[k].alias) = table_ref}
  IN IF hits = {} THEN table_ref ELSE Upper(refs[MaxOf(hits)].table)

\* r'\b(\w+)\.(\w+)\b'
qualified_pattern == Sq(<<Wb, Grp(1, Wd1), L("."), Grp(2, Wd1), Wb>>)
\* r'(\w+)\s*(?:=|>|<|>=|<=|<>|!=)\s*(?:\'[^\']*\'|\d+)'
where_pattern ==
  Sq(<<Grp(1, Wd1), Sp0,
       Alt(<<L("="), L(">"), L("<"), L(">="), L("<="), L("<>"), L("!=")>>), Sp0,
       Alt(<<single_quoted_pattern, Dg1>>)>>)
\* r'GROUP\s+BY\s+([\w\s,]+?)(?:\s+ORDER\s+BY|\s+HAVING|\s*$)'
group_pattern ==
  Sq(<<LI("GROUP"), Sp1, LI("BY"), Sp1,
       Grp(1, Cls(FALSE, ",", TRUE, TRUE, FALSE, 1, Inf, FALSE)),
       Alt(<<Sq(<<Sp1, LI("ORDER"), Sp1, LI("BY")>>), Sq(<<Sp1, LI("HAVING")>>),
             Sq(<<Sp0, Eos>>)>>)>>)

\* the set all_columns of _extract_column_references: names compared to a
\* value and the items of GROUP BY; empty when there is no primary table
AllColumns(query) ==
  LET Compared(clean, wm) ==
        {Upper(Group(clean, wm[k], 1)) : k \in 1..Len(wm)}
          \ {"AND", "OR", "NOT", "EXISTS", "NULL", "TRUE", "FALSE"}
      Items(clean, group_match) ==
        IF Found(group_match) THEN Split(Group(clean, group_match, 1), ",") ELSE <<>>
      Grouped(items) ==
        {c \in {Upper(Strip(items[k])) : k \in 1..Len(items)} : c # "" /\ ~IsDigitStr(c)}
      Columns(clean) ==
        IF PrimaryTable(TableRefs(clean)) = None THEN {}
        ELSE Compared(clean, FindAll(where_pattern, clean, TRUE))
             \cup Grouped(Items(clean, Search(group_pattern, clean, TRUE)))
  IN Columns(CleanQuery(query))

\* ColumnValidationAgent._extract_column_references; order is the order in
\* which iterating the set all_columns yields its elements
extract_column_references(query, order) ==
  LET QCols(quals, t) ==
        LET Columns(mine) == Uniq([k \in 1..Len(mine) |-> mine[k].c])
        IN Columns(AtPositions(quals, {k \in 1..Len(quals) : quals[k].t = t}))
      Cols(quals, qtables, primary_table, t) ==
        LET WithUnqualified(q) ==
              IF t = primary_table
              THEN q \o AtPositions(order, {k \in 1..Len(order) : order[k] \notin Range(q)})
              ELSE q
        IN WithUnqualified(IF t \in Range(qtables) THEN QCols(quals, t) ELSE <<>>)
      Dict(quals, qtables, primary_table, kept) ==
        CASE Evaluated(kept) ->
          [i \in 1..Len(kept) |->
             [k |-> kept[i], v |-> Cols(quals, qtables, primary_table, kept[i])]]
      Kept(quals, qtables, primary_table, tables, ctes) ==
        Dict(quals, qtables, primary_table,
             AtPositions(tables, {k \in 1..Len(tables) : tables[k] \notin ctes}))
      Tables(clean, quals, qtables, primary_table) ==
        Kept(quals, qtables, primary_table,
             IF order # <<>> /\ primary_table \notin Range(qtables)
             THEN Append(qtables, primary_table) ELSE qtables,
             CteNames(clean))
      Qualified(clean, refs, quals) ==
        CASE Evaluated(quals) ->
          Tables(clean, quals, Uniq([k \in 1..Len(quals) |-> quals[k].t]),
                 PrimaryTable(refs))
      Aliased(clean, refs, qm) ==
        Qualified(clean, refs,
          [k \in 1..Len(qm) |->
             [t |-> ResolveAlias(refs, Upper(Group(clean, qm[k], 1))),
              c |-> Upper(Group(clean, qm[k], 2))]])
      Referenced(clean, refs) ==
        CASE Evaluated(refs) -> Aliased(clean, refs, FindAll(qualified_pattern, clean, FALSE))
      Cleaned(clean) == CASE Evaluated(clean) -> Referenced(clean, TableRefs(clean))
  IN Cleaned(CleanQuery(query))

\* the column_mappings dict of _find_similar_column, in insertion order
similar_column_mappings ==
  << [k |-> "OPPORTUNITY_ID", v |-> <<"OPPTY_ID", "OPP_ID", "OPPORTUNITY_NUM", "DEAL_ID">>],
     [k |-> "OPPORTUNITY_VALUE",
      v |-> <<"OPPTY_VALUE", "DEAL_VALUE", "OPPORTUNITY_AMT", "OPP_VALUE">>],
     [k |-> "CLIENT_NAME",
      v |-> <<"CUSTOMER_NAME", "ACCOUNT_NAME", "CLIENT_ID", "CUSTOMER_ID">>],
     [k |-> "SALES_STAGE", v |-> <<"STAGE", "OPPORTUNITY_STAGE", "DEAL_STAGE">>],
     [k |-> "WON_AMT", v |-> <<"WON_AMOUNT", "WON_VALUE", "CLOSED_WON_AMT">>],
     [k |-> "REVENUE_AMT", v |-> <<"REVENUE", "REVENUE_AMOUNT", "ACTUAL_REVENUE">>],
     [k |-> "PIPELINE_AMT", v |-> <<"PIPELINE_VALUE", "PIPELINE_AMOUNT">>],
     [k |-> "BUDGET_AMT", v |-> <<"BUDGET", "BUDGET_AMOUNT", "TARGET_REVENUE">>] >>

\* the first column of available_columns whose upper-case form is in names
FirstNamed(available_columns, names) ==
  LET hits == {k \in 1..Len(available_columns) : Upper(available_columns[k]) \in names}
  IN IF hits = {} THEN None ELSE available_columns[MinOf(hits)]

\* ColumnValidationAgent._find_similar_column
find_similar_column(missing_column, available_columns) ==
  LET missing_upper == Upper(missing_column)
      exact == FirstNamed(available_columns, {missing_upper})
      known == ODGet(similar_column_mappings, missing_upper, <<>>)
      khits == {k \in 1..Len(known) : FirstNamed(available_columns, {known[k]}) # None}
      rhits == {k \in 1..Len(similar_column_mappings) :
                  /\ missing_upper \in Range(similar_column_mappings[k].v)
                  /\ FirstNamed(available_columns, {similar_column_mappings[k].k}) # None}
      shits == {k \in 1..Len(available_columns) :
                  LET col_upper == Upper(available_columns[k])
                  IN /\ Contains(col_upper, missing_upper) \/ Contains(missing_upper, col_upper)
                     /\ Len(missing_upper) > 3 /\ Len(col_upper) > 3}
  IN IF exact # None THEN exact
     ELSE IF khits # {} THEN FirstNamed(available_columns, {known[MinOf(khits)]})
     ELSE IF rhits # {}
     THEN FirstNamed(available_columns, {similar_column_mappings[MinOf(rhits)].k})
     ELSE IF shits # {} THEN available_columns[MinOf(shits)]
     ELSE None

OctDigits == CharsOf("01234567")
\* chr(64)..chr(95) and chr(97)..chr(126); the grave accent chr(96) and
\* DEL chr(127) cannot be written in a string and are spelled out
Ascii64 == "@ABCDEFGHIJKLMNOPQRSTUVWXYZ[\\]^_"
Ascii97 == "abcdefghijklmnopqrstuvwxyz{|}~"
Chr(code) ==
  IF code = 127 THEN "<DEL>"
  ELSE IF code = 96 THEN "<GRAVE>"
  ELSE IF code < 96 THEN Ch(Ascii64, code - 63)
  ELSE Ch(Ascii97, code - 96)
DigitValue(c) == PosIn(c, Digits) - 1

\* the template rf'\1{new_col}' read as re reads it: "\1" followed by two
\* octal digits is one octal escape and there is no group reference
IsOctalEscape(new_col) ==
  Len(new_col) >= 2 /\ Ch(new_col, 1) \in OctDigits /\ Ch(new_col, 2) \in OctDigits
\* "\1" followed by any other digit refers to group 10..19 of a pattern
\* that has one group: re.error
TemplateRaises(new_col) ==
  Len(new_col) >= 1 /\ IsDigit(Ch(new_col, 1)) /\ ~IsOctalEscape(new_col)
QualifiedTemplate(new_col) ==
  IF IsOctalEscape(new_col)
  THEN <<TLit(Chr(64 + 8 * DigitValue(Ch(new_col, 1)) + DigitValue(Ch(new_col, 2)))
              \o SubSeq(new_col, 3, Len(new_col)))>>
  ELSE <<TGrp(1), TLit(new_col)>>

WsComma11 == Cls(FALSE, ",", FALSE, TRUE, FALSE, 1, 1, TRUE)
Sp11 == Cls(FALSE, "", FALSE, TRUE, FALSE, 1, 1, TRUE)
\* rf'\b(\w+\.){old_col}\b'
pattern1(old_col) == Sq(<<Wb, Grp(1, Sq(<<Wd1, L(".")>>)), LI(old_col), Wb>>)
\* rf'\b{old_col}\b(?=\s*[,\s]|\s+AS\s|\s*\)|\s*$)'
pattern2(old_col) ==
  Sq(<<Wb, LI(old_col), Wb,
       Look(Alt(<<Sq(<<Sp0, WsComma11>>), Sq(<<Sp1, LI("AS"), Sp11>>),
                  Sq(<<Sp0, L(")")>>), Sq(<<Sp0, Eos>>)>>))>>)

RECURSIVE ApplySubstitutionsFrom(_, _, _, _)
\* the loop of _apply_column_substitutions from the i-th mapping on;
\* raised: re.sub raised re.error on the replacement template
ApplySubstitutionsFrom(mappings, i, corrected_query, substitutions_made) ==
  IF i > Len(mappings)
  THEN [q |-> corrected_query, subs |-> substitutions_made, raised |-> FALSE]
  ELSE
    LET old_col == mappings[i].k
        new_col == mappings[i].v
        note == old_col \o " -> " \o new_col
        Unqualified(q1, s1, re, hit2) ==
          CASE Evaluated(hit2) ->
            ApplySubstitutionsFrom(mappings, i + 1,
              IF hit2 THEN Sub(re, <<TLit(new_col)>>, q1, TRUE) ELSE q1,
              IF hit2 /\ note \notin Range(s1) THEN Append(s1, note) ELSE s1)
        Second(q1, s1, re) ==
          CASE Evaluated(q1) -> Unqualified(q1, s1, re, Found(Search(re, q1, TRUE)))
        Qualified(re, hit1) ==
          IF hit1 /\ TemplateRaises(new_col)
          THEN [q |-> corrected_query, subs |-> substitutions_made, raised |-> TRUE]
          ELSE Second(IF hit1
                      THEN Sub(re, QualifiedTemplate(new_col), corrected_query, TRUE)
                      ELSE corrected_query,
                      IF hit1 THEN Append(substitutions_made, note) ELSE substitutions_made,
                      pattern2(old_col))
        First(re) == Qualified(re, Found(Search(re, corrected_query, TRUE)))
    IN First(pattern1(old_col))

\* ColumnValidationAgent._apply_column_substitutions
apply_column_substitutions(query, mappings) == ApplySubstitutionsFrom(mappings, 1, query, <<>>)

\* f"{col['column']} (from {col['table']})"
MissingLabel(col) == col.column \o " (from " \o col.table \o ")"

\* ColumnValidationAgent._build_regeneration_prompt
build_regeneration_prompt(missing_columns, available_columns, context) ==
  LET missing_list == [k \in 1..Len(missing_columns) |-> MissingLabel(missing_columns[k])]
  IN "\nThe generated SQL query contains columns that don't exist in the database schema.\n\nMISSING COLUMNS:\n"
     \o JoinStr(missing_list, ", ")
     \o "\n\nAVAILABLE COLUMNS:\n"
     \o JoinStr(SubSeq(available_columns, 1, Min(20, Len(available_columns))), ", ")
     \o (IF Len(available_columns) > 20 THEN "..." ELSE "")
     \o "\n\nPlease regenerate the SQL query using only the available columns. \nConsider these alternatives:\n- For OPPORTUNITY_ID: Use OPPTY_ID, OPP_ID, or similar\n- For OPPORTUNITY_VALUE: Use OPPTY_VALUE, DEAL_VALUE, or PPV_AMT\n- For CLIENT_NAME: Use CUSTOMER_NAME or ACCOUNT_NAME\n- For missing date columns: Use available date/time columns\n\nOriginal question: "
     \o context.question \o "\nDatabase type: " \o context.db_type \o "\n"

\* ColumnValidationAgent._build_suggestions
build_suggestions(missing_columns, column_mappings, available_columns) ==
  LET unmappable == AtPositions(missing_columns,
                      {k \in 1..Len(missing_columns) :
                         ~ODHas(column_mappings, missing_columns[k].column)})
      relevant == AtPositions(available_columns,
                    {k \in 1..Len(available_columns) :
                       AnyIn(Upper(available_columns[k]),
                             {"ID", "NAME", "AMT", "VALUE", "STAGE"})})
  IN IF missing_columns = <<>> THEN <<>>
     ELSE <<"Found " \o ToString(Len(missing_columns)) \o " missing columns">>
          \o (IF column_mappings # <<>>
              THEN <<"Some columns can be automatically substituted:">>
                   \o [k \in 1..Len(column_mappings) |->
                         "  " \o column_mappings[k].k \o " → " \o column_mappings[k].v]
              ELSE <<>>)
          \o (IF unmappable # <<>>
              THEN <<"Columns requiring regeneration:">>
                   \o [k \in 1..Len(unmappable) |-> "  " \o MissingLabel(unmappable[k])]
                   \o <<"Consider these alternatives from available columns:">>
                   \o [k \in 1..Min(5, Len(relevant)) |-> "  " \o relevant[k]]
              ELSE <<>>)

\* the schema check of ColumnValidationAgent.process (steps 1 to 4)
CheckColumns(sql_query, context, order) ==
  LET TableColumns(known, k) == context.columns_available[known[k].k]
      Missing(cols, table_columns) ==
        LET NotIn(uppers) ==
              AtPositions(cols, {j \in 1..Len(cols) : Upper(cols[j]) \notin uppers})
        IN NotIn({Upper(table_columns[j]) : j \in 1..Len(table_columns)})
      Similar(missing, table_columns) ==
        LET Mappable(found) ==
              AtPositions(found, {j \in 1..Len(found) : Truthy(found[j].v)})
        IN Mappable([j \in 1..Len(missing) |->
                       [k |-> missing[j],
                        v |-> find_similar_column(missing[j], table_columns)]])
      Checked(referenced_columns, known, missing_columns, column_mappings) ==
        CASE Evaluated(column_mappings) ->
          [referenced_columns |-> referenced_columns,
           available_columns |->
             ConcatAll([k \in 1..Len(known) |-> TableColumns(known, k)]),
           missing_columns |-> missing_columns,
           column_mappings |-> column_mappings,
           needs_regeneration |->
             \E k \in 1..Len(missing_columns) :
                ~ODHas(column_mappings, missing_columns[k].column)]
      Mapped(referenced_columns, known, missing_columns, assignments) ==
        CASE Evaluated(missing_columns) /\ Evaluated(assignments) ->
          Checked(referenced_columns, known, missing_columns,
                  ODFromAssignments(assignments))
      Compared(referenced_columns, known, missing) ==
        CASE Evaluated(missing) ->
          Mapped(referenced_columns, known,
            ConcatAll([k \in 1..Len(known) |->
              [j \in 1..Len(missing[k]) |->
                 [table |-> known[k].k, column |-> missing[k][j]]]]),
            ConcatAll([k \in 1..Len(known) |->
              Similar(missing[k], TableColumns(known, k))]))
      Known(referenced_columns, known) ==
        CASE Evaluated(known) ->
          Compared(referenced_columns, known,
            [k \in 1..Len(known) |-> Missing(known[k].v, TableColumns(known, k))])
      Referenced(referenced_columns) ==
        CASE Evaluated(referenced_columns) ->
          Known(referenced_columns,
                AtPositions(referenced_columns,
                  {k \in 1..Len(referenced_columns) :
                     referenced_columns[k].k \in DOMAIN context.columns_available}))
  IN Referenced(extract_column_references(sql_query, order))

\* the query ColumnValidationAgent.process reads
ColumnValidationInput(input_data) ==
  Get(input_data, "optimized_query", Get(input_data, "sql_query", ""))

\* ColumnValidationAgent.process raises: re.error leaves _apply_column_substitutions
ColumnValidationRaises(input_data, context, order) ==
  LET sql_query == ColumnValidationInput(input_data)
      Raised(c) ==
        /\ Evaluated(c)
        /\ c.column_mappings # <<>> /\ ~c.needs_regeneration
        /\ apply_column_substitutions(sql_query, c.column_mappings).raised
  IN /\ Truthy(sql_query) /\ ~HasCTE(sql_query)
     /\ Raised(CheckColumns(sql_query, context, order))

\* ColumnValidationAgent.process, when it returns
ColumnValidationProcess(input_data, context, order) ==
  LET sql_query == ColumnValidationInput(input_data)
      Respond(c, applied) ==
        LET confidence == IF c.missing_columns = <<>> THEN One
                          ELSE IF ~c.needs_regeneration THEN 7 * Tenth ELSE 3 * Tenth
            columns_checked ==
              Len(ConcatAll([k \in 1..Len(c.referenced_columns) |->
                               c.referenced_columns[k].v]))
            step_details == [columns_checked |-> columns_checked,
                             missing_columns |-> Len(c.missing_columns),
                             column_mappings |-> Len(c.column_mappings),
                             substitutions_made |-> Len(applied.subs),
                             needs_regeneration |-> c.needs_regeneration]
        IN CASE Evaluated(applied) ->
           create_response(
             ~c.needs_regeneration,
             IF c.missing_columns # <<>>
             THEN "Column validation complete - " \o ToString(Len(c.missing_columns))
                    \o " missing columns found"
             ELSE "All columns validated successfully",
             [original_query |-> sql_query, validated_query |-> applied.q,
              missing_columns |-> c.missing_columns,
              column_mappings |-> c.column_mappings,
              substitutions_made |-> applied.subs,
              available_columns |-> c.available_columns,
              needs_regeneration |-> c.needs_regeneration,
              step_details |-> step_details,
              regeneration_prompt |->
                IF c.needs_regeneration
                THEN build_regeneration_prompt(c.missing_columns, c.available_columns,
                                               context)
                ELSE None],
             confidence,
             build_suggestions(c.missing_columns, c.column_mappings, c.available_columns))
      Substituted(c) ==
        CASE Evaluated(c) ->
          Respond(c, IF c.column_mappings # <<>> /\ ~c.needs_regeneration
                     THEN apply_column_substitutions(sql_query, c.column_mappings)
                     ELSE [q |-> sql_query, subs |-> <<>>, raised |-> FALSE])
  IN IF ~Truthy(sql_query)
     THEN create_response(FALSE, "No SQL query provided", EmptyDict, 0, <<>>)
     ELSE IF HasCTE(sql_query)
     THEN create_response(
            TRUE, "Query contains CTE - column validation skipped",
            [original_query |-> sql_query, validated_query |-> sql_query,
             missing_columns |-> <<>>, column_mappings |-> <<>>,
             substitutions_made |-> <<>>, available_columns |-> <<>>,
             needs_regeneration |-> FALSE],
            9 * Tenth, <<>>)
     ELSE Substituted(CheckColumns(sql_query, context, order))

(***************************************************************************)
(* SQLRegenerationAgent                                                    *)
(***************************************************************************)
\* the substitutions dict of _apply_fallback_substitutions, in insertion
\* order: r'\bOPPORTUNITY_ID\b' -> 'OPPTY_ID', ...
fallback_substitutions ==
  << [k |-> "OPPORTUNITY_ID", v |-> "OPPTY_ID"],
     [k |-> "OPPORTUNITY_VALUE", v |-> "PPV_AMT"],
     [k |-> "CLIENT_NAME", v |-> "CUSTOMER_NAME"],
     [k |-> "REVENUE_AMT", v |-> "ACTUAL_REVENUE"],
     [k |-> "PIPELINE_AMT", v |-> "PIPELINE_VALUE"] >>

RECURSIVE ApplyFallbackFrom(_, _)
ApplyFallbackFrom(i, fallback_query) ==
  IF i > Len(fallback_substitutions) THEN fallback_query
  ELSE LET Rest(substituted) ==
             CASE Evaluated(substituted) -> ApplyFallbackFrom(i + 1, substituted)
       IN Rest(Sub(Sq(<<Wb, LI(fallback_substitutions[i].k), Wb>>),
                   <<TLit(fallback_substitutions[i].v)>>, fallback_query, TRUE))

\* SQLRegenerationAgent._apply_fallback_substitutions
apply_fallback_substitutions(query) == ApplyFallbackFrom(1, query)

\* what llm_connector.generate_sql does when called: it raises, or it
\* returns a dict (the parsed JSON of the provider, or {"error": ...})
LLMRaises(error) == [raises |-> TRUE, error |-> error, value |-> EmptyDict]
LLMReturns(value) == [raises |-> FALSE, error |-> "", value |-> value]

\* the confidence SQLRegenerationAgent gives a query the provider returned
\* without one
DefaultRegenerationConfidence == 8 * Tenth
FallbackConfidence == 6 * Tenth

\* a variant of RegenerationFailed: the original query is dropped
RegenerationFailedWithoutQuery(error, original_query) ==
  create_response(FALSE, "SQL regeneration failed: " \o error, EmptyDict, 0, <<>>)

\* the response of the `except Exception as e` branch
RegenerationFailed(error, original_query) ==
  create_response(FALSE, "SQL regeneration failed: " \o error,
                  [original_query |-> original_query], 0, <<>>)

\* SQLRegenerationAgent.process; llm_connector tells whether a connector is
\* configured, answer is what its generate_sql does
RegeneratorProcess(input_data, context, llm_connector, answer) ==
  LET regeneration_prompt == Get(input_data, "regeneration_prompt", "")
      original_query == Get(input_data, "original_query", "")
      regenerated_result == answer.value
  IN IF ~Truthy(regeneration_prompt)
     THEN create_response(FALSE, "No regeneration prompt provided", EmptyDict, 0, <<>>)
     ELSE IF llm_connector /\ answer.raises
     THEN RegenerationFailed(answer.error, original_query)
     ELSE IF llm_connector /\ DOMAIN regenerated_result # {}
             /\ "sql_query" \in DOMAIN regenerated_result
     THEN create_response(
            TRUE, "SQL successfully regenerated with valid columns",
            [original_query |-> original_query,
             regenerated_query |-> regenerated_result["sql_query"],
             regeneration_explanation |-> Get(regenerated_result, "explanation", ""),
             regeneration_confidence |->
               Get(regenerated_result, "confidence", DefaultRegenerationConfidence)],
            Get(regenerated_result, "confidence", DefaultRegenerationConfidence), <<>>)
     ELSE create_response(
            TRUE, "Applied fallback column substitutions",
            [original_query |-> original_query,
             regenerated_query |-> apply_fallback_substitutions(original_query),
             regeneration_explanation |-> "Applied basic column name substitutions",
             regeneration_confidence |-> FallbackConfidence],
            FallbackConfidence, <<>>)

(***************************************************************************)
(* DatabaseManager: the translation of DB2 text for SQLite                 *)
(***************************************************************************)
NotComma1 == Cls(TRUE, ",", FALSE, FALSE, FALSE, 1, Inf, TRUE)
\* r'NAME\s*\(\s*([^)]+)\s*\)'
CallOf(name) == Sq(<<LI(name), Sp0, L("("), Sp0, Grp(1, NotRParen1), Sp0, L(")")>>)
\* r'FETCH\s+FIRST\s+(\d+)\s+ROWS?\s+ONLY'
fetch_first_pattern ==
  Sq(<<LI("FETCH"), Sp1, LI("FIRST"), Sp1, Grp(1, Dg1), Sp1, LI("ROW"), Opt(LI("S")),
       Sp1, LI("ONLY")>>)
\* decimal_pattern of _convert_db2_to_sqlite:
\* r'DECIMAL\s*\(\s*([^,]+)\s*,\s*\d+\s*,\s*(\d+)\s*\)'
scaled_decimal_pattern ==
  Sq(<<LI("DECIMAL"), Sp0, L("("), Sp0, Grp(1, NotComma1), Sp0, L(","), Sp0, Dg1, Sp0,
       L(","), Sp0, Grp(2, Dg1), Sp0, L(")")>>)
\* r'DECIMAL\s*\(\s*([^)]+)\s*\)'
simple_decimal_pattern == CallOf("DECIMAL")
\* quarter_pattern of _convert_db2_to_sqlite: r'QUARTER\s*\(\s*([^)]+)\s*\)'
quarter_call_pattern == CallOf("QUARTER")
\* r'(AND|WHERE)\s+YEAR\s*=\s*'
YearEquals(keyword) == Sq(<<LI(keyword), Sp1, LI("YEAR"), Sp0, L("="), Sp0>>)
\* r'AS\s+INTEGER\)\s+AS\s+INTEGER'
integer_twice_pattern ==
  Sq(<<LI("AS"), Sp1, LI("INTEGER)"), Sp1, LI("AS"), Sp1, LI("INTEGER")>>)
\* r'CAST\s*\(\s*([^)]+)\s+AS\s+DOUBLE\s*\)'
cast_double_pattern ==
  Sq(<<LI("CAST"), Sp0, L("("), Sp0, Grp(1, NotRParen1), Sp1, LI("AS"), Sp1, LI("DOUBLE"),
       Sp0, L(")")>>)
\* r'ROUND\s*\(\s*([^,]+),\s*\d+,\s*(\d+)\s*\)'
round3_pattern ==
  Sq(<<LI("ROUND"), Sp0, L("("), Sp0, Grp(1, NotComma1), L(","), Sp0, Dg1, L(","), Sp0,
       Grp(2, Dg1), Sp0, L(")")>>)
\* r'COALESCE\([^,]+,\s*(\d+)\)' (case-sensitive)
coalesce_pattern == Sq(<<L("COALESCE("), NotComma1, L(","), Sp0, Grp(1, Dg1), L(")")>>)
\* r'\s+NULLS\s+(LAST|FIRST)'
nulls_pattern == Sq(<<Sp1, LI("NULLS"), Sp1, Grp(1, Alt(<<LI("LAST"), LI("FIRST")>>))>>)

\* re.sub(pattern, function, s): Sub with the replacement computed from the match
SubBy(re, Replacement(_, _), s, ci) ==
  LET Replaced(ms) ==
        CASE Evaluated(ms) -> ConcatStr([k \in 1..(Len(ms) + 1) |->
          SubSeq(s, IF k = 1 THEN 1 ELSE ms[k - 1].e,
                    IF k > Len(ms) THEN Len(s) ELSE ms[k].st - 1)
          \o (IF k > Len(ms) THEN "" ELSE Replacement(s, ms[k]))])
  IN Replaced(FindAll(re, s, ci))

\* quarter_replacement
quarter_replacement(s, match) ==
  "((CAST(strftime('%m', " \o Strip(Group(s, match, 1)) \o ") AS INTEGER) - 1) / 3 + 1)"
\* lambda m: m.group(0).replace(f', {m.group(1)}', ', 0')
coalesce_replacement(s, m) == Replace(Group0(s, m), ", " \o Group(s, m, 1), ", 0")

\* the re.sub calls of _convert_db2_to_sqlite that take a template, in two
\* runs: those before the QUARTER rewrite and those between it and the
\* COALESCE rewrite
rules_before_quarter ==
  << [re |-> fetch_first_pattern, tpl |-> <<TLit("LIMIT "), TGrp(1)>>],
     [re |-> scaled_decimal_pattern,
      tpl |-> <<TLit("ROUND("), TGrp(1), TLit(", "), TGrp(2), TLit(")")>>],
     [re |-> simple_decimal_pattern, tpl |-> <<TLit("ROUND("), TGrp(1), TLit(", 2)")>>],
     [re |-> Sq(<<LI("CURRENT"), Sp1, LI("DATE")>>), tpl |-> <<TLit("date('now')")>>],
     [re |-> CallOf("YEAR"), tpl |-> <<TLit("strftime('%Y', "), TGrp(1), TLit(")")>>],
     [re |-> YearEquals("AND"), tpl |-> <<TLit("AND strftime('%Y', date('now')) = ")>>],
     [re |-> YearEquals("WHERE"), tpl |-> <<TLit("WHERE strftime('%Y', date('now')) = ")>>],
     [re |-> CallOf("MONTH"), tpl |-> <<TLit("strftime('%m', "), TGrp(1), TLit(")")>>] >>
rules_after_quarter ==
  << [re |-> integer_twice_pattern, tpl |-> <<TLit("AS INTEGER")>>],
     [re |-> cast_double_pattern, tpl |-> <<TLit("CAST("), TGrp(1), TLit(" AS REAL)")>>],
     [re |-> Sq(<<LI("FULL"), Sp1, LI("OUTER"), Sp1, LI("JOIN")>>),
      tpl |-> <<TLit("LEFT JOIN")>>],
     [re |-> round3_pattern,
      tpl |-> <<TLit("ROUND("), TGrp(1), TLit(", "), TGrp(2), TLit(")")>>] >>

RECURSIVE SubAll(_, _, _)
\* query = re.sub(rule, query, flags=re.IGNORECASE) for each rule in turn
SubAll(rules, k, query) ==
  IF k > Len(rules) THEN query
  ELSE LET Next1(new) == CASE Evaluated(new) -> SubAll(rules, k + 1, new)
       IN Next1(Sub(rules[k].re, rules[k].tpl, query, TRUE))

\* DatabaseManager._convert_db2_to_sqlite. Its last substitution removes what
\* follows an em dash; the texts here are ASCII, so it changes nothing.
convert_db2_to_sqlite(query) ==
  LET Nulls(q) == CASE Evaluated(q) -> Sub(nulls_pattern, <<>>, q, TRUE)
      Coalesce(q) ==
        CASE Evaluated(q) -> Nulls(SubBy(coalesce_pattern, coalesce_replacement, q, FALSE))
      AfterQuarter(q) == CASE Evaluated(q) -> Coalesce(SubAll(rules_after_quarter, 1, q))
      Quarter(q) ==
        CASE Evaluated(q) ->
          AfterQuarter(SubBy(quarter_call_pattern, quarter_replacement, q, TRUE))
  IN Quarter(SubAll(rules_before_quarter, 1, query))

(***************************************************************************)
(* SQLAgentOrchestrator.process_query                                      *)
(***************************************************************************)
\* how many times process_query is run on the same request
MaxRuns == 2

\* column registries (context.columns_available); tables_available is the
\* list of their keys
RegistryA == [t \in {"T1"} |-> <<"OPPTY_ID", "MARKET", "SALES_STAGE">>]
RegistryB == [t \in {"T1"} |-> <<"1ST_QTR_AMT", "MARKET">>]

\* the arguments of one call of process_query; tables_available is
\* list(columns_available.keys()) as process_with_agents builds it
Request(initial_query, question, columns_available, db_type) ==
  [initial_query |-> initial_query,
   context |-> [question |-> question, schema_info |-> "", data_dictionary |-> "",
                tables_available |-> <<"T1">>,
                columns_available |-> columns_available, db_type |-> db_type]]

InitialQueries ==
  { "",
    "SELECT MARKET FROM T1",
    "SELECT P.FOO_ID FROM T1 P",
    "SELECT P.FOO_ID FROM T1 P LIMIT 5",
    "SELECT P.OPPORTUNITY_ID FROM T1 P",
    "SELECT MARKET FROM T1 WHERE FOO = 1 AND BAR = 2",
    "WITH A AS (SELECT MARKET FROM T1) SELECT MARKET FROM A" }

\* a query with a WITH prelude, asked with questions in which the time, the
\* geographic and the product context are detected
CteQuery == "WITH A AS (SELECT MARKET FROM T1) SELECT MARKET FROM A"
CteRequests ==
  {Request(CteQuery, question, RegistryA, "DB2") :
     question \in {"ytd in emea", "genai deals"}}

\* two tables: OPPORTUNITY_ID is a column of T2 and is missing from T1,
\* where its synonym OPPTY_ID is
RegistryJoin ==
  [t \in {"T1", "T2"} |->
     IF t = "T1" THEN <<"OPPTY_ID", "MARKET">> ELSE <<"OPPORTUNITY_ID", "MARKET">>]
JoinQuery ==
  "SELECT A.OPPORTUNITY_ID, B.OPPORTUNITY_ID FROM T1 A JOIN T2 B ON A.MARKET = B.MARKET"
JoinRequests ==
  {[Request(JoinQuery, "", RegistryJoin, "DB2") EXCEPT
      !.context.tables_available = <<"T1", "T2">>]}

\* the missing column OPPORTUNITY_ID named without a qualifier in the SELECT
\* list
SelectListRequests ==
  {Request("SELECT MARKET, OPPORTUNITY_ID FROM T1", "", RegistryA, "DB2")}

\* row limits: LIMIT n written with a blank and with a tab, and DB2's own
\* FETCH FIRST n ROWS ONLY
LimitRequests ==
  {Request(q, "", RegistryA, "DB2") :
     q \in {"SELECT MARKET FROM T1 LIMIT 10", "SELECT MARKET FROM T1 LIMIT\t10",
            "SELECT MARKET FROM T1 FETCH FIRST 10 ROWS ONLY"}}

\* the row limit of each dialect asked for SQLite, and two SQLite date
\* constructs asked for DB2
DialectRequests ==
  {Request(q, "", RegistryA, "SQLite") :
     q \in {"SELECT MARKET FROM T1 LIMIT 10", "SELECT MARKET FROM T1 FETCH FIRST 10 ROWS ONLY"}}
  \cup {Request("SELECT date('now'), datetime('now') FROM T1", "", RegistryA, "DB2")}

\* flat queries that get a conjunct for the question "genai deals": with a
\* plain WHERE, with a WHERE that begins with a parenthesis, and with a
\* GROUP BY and no WHERE
RegistryGenAI == [t \in {"T1"} |-> <<"MARKET", "IBM_GEN_AI_IND", "PARTNER_GEN_AI_IND">>]
WhereRequests ==
  {Request(q, "genai deals", RegistryGenAI, "DB2") :
     q \in {"SELECT MARKET FROM T1 WHERE MARKET = 1",
            "SELECT MARKET FROM T1 WHERE (MARKET = 1 OR MARKET = 2)",
            "SELECT MARKET FROM T1 GROUP BY MARKET"}}

\* no row limit and no aggregation, but a column whose name holds LIMIT; an
\* aggregation written with and without a blank before the parenthesis
OptimizerRequests ==
  {Request(q, "", RegistryA, "DB2") :
     q \in {"SELECT CREDIT_LIMIT FROM T1", "SELECT COUNT(MARKET) FROM T1",
            "SELECT COUNT (MARKET) FROM T1"}}

\* a string literal that reads like a row limit (asked for DB2) and one that
\* reads like CURRENT DATE (asked for SQLite and executed there)
LiteralRequests ==
  {Request("SELECT MARKET FROM T1 WHERE MARKET = 'LIMIT 5'", "", RegistryA, "DB2"),
   Request("SELECT MARKET FROM T1 WHERE MARKET = 'CURRENT DATE' FETCH FIRST 5 ROWS ONLY",
           "", RegistryA, "SQLite")}

\* DB2 texts built from constructs of the rule table, executed on SQLite
RoundTripRequests ==
  {Request(q, "", RegistryA, "SQLite") :
     q \in {"SELECT DECIMAL(MARKET, 10, 2) FROM T1 FETCH FIRST 10 ROWS ONLY",
            "SELECT MARKET FROM T1 ORDER BY MARKET NULLS LAST FETCH FIRST 10 ROWS ONLY",
            "SELECT YEAR(MARKET) FROM T1 FETCH FIRST 10 ROWS ONLY"}}

\* the registry of RegistryA under a lower-case table name, and a query
\* written in lower case
RegistryLower == [t \in {"t1"} |-> <<"OPPTY_ID", "MARKET", "SALES_STAGE">>]
CaseRequests ==
  {[Request("SELECT P.OPPORTUNITY_ID FROM T1 P", "", RegistryLower, "DB2") EXCEPT
      !.context.tables_available = <<"t1">>],
   Request("SELECT p.opportunity_id FROM t1 p", "", RegistryA, "DB2")}

\* queries with a correction, an unknown table and an unknown column at once
ValidatorRequests ==
  {Request("SELECT T1.OPPORTUNITY_ID FROM T9 LIMIT 5", "", RegistryA, "DB2"),
   Request("SELECT T1.OPPORTUNITY_ID FROM T9", "", RegistryA, "DB2")}

\* a question with a time keyword that only one of the two copies of the
\* Where Clause Enhancer knows
TimeKeywordRequests == {Request("SELECT MARKET FROM T1", "recent deals", RegistryA, "DB2")}

Requests ==
  {Request(q, "", RegistryA, "DB2") : q \in InitialQueries}
  \cup {Request("SELECT MARKET FROM T1", "pipeline in emea", RegistryA, "SQLite"),
        Request("SELECT P.QTR_AMT FROM T1 P", "", RegistryB, "DB2")}
  \cup CteRequests
  \cup JoinRequests
  \cup SelectListRequests
  \cup LimitRequests
  \cup DialectRequests
  \cup WhereRequests
  \cup OptimizerRequests
  \cup LiteralRequests
  \cup RoundTripRequests
  \cup CaseRequests
  \cup ValidatorRequests
  \cup TimeKeywordRequests

\* what the provider can answer to the regeneration prompt
RegeneratedQueries ==
  {None, "", "  ", "SELECT P.OPPTY_ID FROM T1 P", "SELECT P.BAR_ID FROM T1 P"}
StatedConfidences == {0, 9 * Tenth, 5 * One}
LLMAnswers ==
  {LLMRaises("provider unavailable"), LLMReturns(EmptyDict),
   LLMReturns([error |-> "Unsupported provider"])}
  \cup {LLMReturns([sql_query |-> q]) : q \in RegeneratedQueries}
  \cup {LLMReturns([sql_query |-> q, confidence |-> c]) :
          q \in RegeneratedQueries, c \in StatedConfidences}
\* the provider has not been asked yet
NotAsked == LLMRaises("<not asked>")

\* an agent that has not been called yet
NotCalled == create_response(FALSE, "<not called>", EmptyDict, 0, <<>>)
\* process_query has not returned yet
NoResult == [returned |-> FALSE]

VARIABLES
  initial_query,             \* arguments of process_query
  context,
  llm_connector,             \* whether the orchestrator was given a connector
  llm_answer,                \* what the provider does when asked
  pc,                        \* the step process_query is at
  current_data,
  processing_log,
  regeneration_attempted,
  validator_response,
  enhancer_response,
  optimizer_response,
  column_validator_response,
  regenerator_response,
  final_column_check,
  recheck_input,             \* the input_data of the recheck call
  set_orders,                \* iteration order of each set built by this process
  result,                    \* the dict process_query returned
  run,                       \* number of the current run on this request
  prev_result,               \* the dict the previous run returned
  executed_sql               \* the text DatabaseManager.execute_query ran, if any

\* LLMConnector (llm_connector.py)
VARIABLES
  connector,                 \* the fields of one LLMConnector
  environment,               \* what is installed and what the Ollama server answers
  backend_requests,          \* requests generate_sql has sent to the provider's backend
  generated                  \* what the last generate_sql call returned

\* ParallelSQLGenerator (create_interactive_app.py)
VARIABLES
  providers_config,          \* the argument of ParallelSQLGenerator.__init__
  connectors,                \* self.connectors
  answers,                   \* what each provider's backend does when asked
  generator_pc,              \* where generate_parallel is
  futures,                   \* the state of each submitted worker
  calls,                     \* the providers generate_sql was called on, in order
  results,                   \* the local list generate_parallel appends to
  outcome                    \* the dict generate_parallel returned

\* the FastAPI backend (backend/main.py)
VARIABLES
  app_state,                 \* the global dict of the backend
  api_calls,                 \* number of API calls served
  last_response,             \* endpoint and status code of the last call served
  served,                    \* how often each endpoint called the LLM, the pipeline, the database
  succeeded                  \* the endpoints that have answered with a success

vars == <<initial_query, context, llm_connector, llm_answer, pc, current_data,
          processing_log, regeneration_attempted, validator_response,
          enhancer_response, optimizer_response, column_validator_response,
          regenerator_response, final_column_check, recheck_input, set_orders,
          result, run, prev_result, executed_sql,
          connector, environment, backend_requests, generated,
          providers_config, connectors, answers, generator_pc, futures, calls,
          results, outcome,
          app_state, api_calls, last_response, served, succeeded>>

pipeline_vars == <<initial_query, context, llm_connector, llm_answer, pc, current_data,
                   processing_log, regeneration_attempted, validator_response,
                   enhancer_response, optimizer_response, column_validator_response,
                   regenerator_response, final_column_check, recheck_input, set_orders,
                   result, run, prev_result, executed_sql>>
connector_vars == <<connector, environment, backend_requests, generated>>
\* the variables of the other components, which process_query does not touch
generator_vars == <<providers_config, connectors, answers, generator_pc, futures,
                    calls, results, outcome>>
backend_vars == <<app_state, api_calls, last_response, served, succeeded>>
elsewhere == <<connector_vars, generator_vars, backend_vars>>

\* no connector has been constructed
ConnectorIdle ==
  /\ connector = [provider |-> None]
  /\ environment = [installed |-> {}]
  /\ backend_requests = 0
  /\ generated = [kind |-> "none"]

\* app_state as the module sets it, with the objects startup_event creates
\* (backend/main.py 49-54, 67-78); None stands for no connector
NoConnector ==
  [provider |-> None, model_name |-> None, api_key |-> None, connected |-> FALSE,
   client |-> None]
AppStateAtStartup ==
  [db_manager |-> [tables_loaded |-> {}], llm_connector |-> NoConnector,
   data_loaded |-> FALSE, llm_connected |-> FALSE]
NotServed == [llm |-> 0, pipeline |-> 0, sql |-> 0]

\* the backend has started and has served no call
BackendIdle ==
  /\ app_state = AppStateAtStartup
  /\ api_calls = 0
  /\ last_response = [endpoint |-> "none", status |-> 0]
  /\ served = NotServed
  /\ succeeded = {}

\* no ParallelSQLGenerator has been constructed
GeneratorIdle ==
  /\ providers_config = <<>>
  /\ connectors = <<>>
  /\ answers = EmptyDict
  /\ generator_pc = "none"
  /\ futures = <<>>
  /\ calls = <<>>
  /\ results = <<>>
  /\ outcome = [returned |-> FALSE]

inputs == <<initial_query, context, llm_connector>>
responses == <<validator_response, enhancer_response, optimizer_response,
               column_validator_response, regenerator_response, final_column_check>>

\* the orders in which this process can iterate the set S: the one it used
\* before for the same set, any order for a set it has not built yet
OrdersFor(S) == IF S \in DOMAIN set_orders THEN {set_orders[S]} ELSE Orderings(S)
Remember(S, order) ==
  [T \in DOMAIN set_orders \cup {S} |-> IF T = S THEN order ELSE set_orders[T]]

\* the locals of process_query before step 1 (orchestrator.py 54-57)
StartRun ==
  /\ pc' = "validate"
  /\ current_data' = [sql_query |-> initial_query]
  /\ processing_log' = <<>>
  /\ regeneration_attempted' = FALSE
  /\ validator_response' = NotCalled
  /\ enhancer_response' = NotCalled
  /\ optimizer_response' = NotCalled
  /\ column_validator_response' = NotCalled
  /\ regenerator_response' = NotCalled
  /\ final_column_check' = NotCalled
  /\ recheck_input' = EmptyDict
  /\ set_orders' = [S \in {} |-> <<>>]
  /\ result' = NoResult
  /\ executed_sql' = None

\* process_query is not running: the state the other components see
PipelineIdle ==
  /\ initial_query = ""
  /\ context = Request("", "", RegistryA, "DB2").context
  /\ llm_connector = FALSE
  /\ llm_answer = NotAsked
  /\ pc = "idle"
  /\ current_data = EmptyDict
  /\ processing_log = <<>>
  /\ regeneration_attempted = FALSE
  /\ validator_response = NotCalled
  /\ enhancer_response = NotCalled
  /\ optimizer_response = NotCalled
  /\ column_validator_response = NotCalled
  /\ regenerator_response = NotCalled
  /\ final_column_check = NotCalled
  /\ recheck_input = EmptyDict
  /\ set_orders = [S \in {} |-> <<>>]
  /\ result = NoResult
  /\ run = 1
  /\ prev_result = NoResult
  /\ executed_sql = None

Init ==
  /\ \E r \in Requests : initial_query = r.initial_query /\ context = r.context
  /\ llm_connector \in BOOLEAN
  /\ llm_answer = NotAsked
  /\ pc = "validate"
  /\ current_data = [sql_query |-> initial_query]
  /\ processing_log = <<>>
  /\ regeneration_attempted = FALSE
  /\ validator_response = NotCalled
  /\ enhancer_response = NotCalled
  /\ optimizer_response = NotCalled
  /\ column_validator_response = NotCalled
  /\ regenerator_response = NotCalled
  /\ final_column_check = NotCalled
  /\ recheck_input = EmptyDict
  /\ set_orders = [S \in {} |-> <<>>]
  /\ result = NoResult
  /\ run = 1
  /\ prev_result = NoResult
  /\ executed_sql = None
  /\ ConnectorIdle
  /\ GeneratorIdle
  /\ BackendIdle

\* the set of table names _extract_tables turns into a list
TablesSet(input_data) ==
  LET sql_query == Get(input_data, "sql_query", "")
  IN IF Truthy(sql_query) THEN Range(extract_tables_list(CorrectedQuery(sql_query))) ELSE {}

\* a variant of AfterValidation: a failed validation ends the pipeline
AfterValidationStopOnFailure(response) ==
  IF response.success THEN "enhance" ELSE "finalize"

\* the step after Step 1: there is no early return, whatever the validator
\* answered
AfterValidation(response) == "enhance"

\* Step 1: validate and correct syntax
Validate ==
  /\ pc = "validate"
  /\ \E tables \in {TablesSet(current_data)} :
       \E tables_used \in OrdersFor(tables) :
         \E r \in {ValidatorProcess(current_data, context, tables_used)} :
           /\ validator_response' = r
           /\ processing_log' = Append(processing_log,
                [agent |-> "DB2SyntaxValidator", success |-> r.success,
                 message |-> r.message, confidence |-> r.confidence])
           /\ current_data' =
                IF r.success THEN r.data
                ELSE [sql_query |-> Get(r.data, "validated_query", initial_query),
                      original_query |-> initial_query]
           /\ set_orders' = Remember(tables, tables_used)
           /\ pc' = AfterValidation(r)
  /\ UNCHANGED <<inputs, elsewhere, executed_sql, llm_answer, regeneration_attempted, enhancer_response,
                 optimizer_response, column_validator_response, regenerator_response,
                 final_column_check, recheck_input, result, run, prev_result>>

\* Step 2: enhance WHERE clause
Enhance ==
  /\ pc = "enhance"
  /\ \E r \in {EnhancerProcess(current_data, context)} :
       /\ enhancer_response' = r
       /\ processing_log' = Append(processing_log,
            [agent |-> "WhereClauseEnhancer", success |-> r.success,
             message |-> r.message, enhancements |-> Get(r.data, "enhancements", <<>>)])
       /\ current_data' = IF r.success THEN r.data ELSE current_data
  /\ pc' = "optimize"
  /\ UNCHANGED <<inputs, elsewhere, executed_sql, llm_answer, regeneration_attempted, validator_response,
                 optimizer_response, column_validator_response, regenerator_response,
                 final_column_check, recheck_input, set_orders, result, run, prev_result>>

\* Step 3: optimize query
Optimize ==
  /\ pc = "optimize"
  /\ \E r \in {OptimizerProcess(current_data, context)} :
       /\ optimizer_response' = r
       /\ processing_log' = Append(processing_log,
            [agent |-> "QueryOptimizer", success |-> r.success,
             message |-> r.message, optimizations |-> Get(r.data, "optimizations", <<>>)])
       /\ current_data' = IF r.success THEN r.data ELSE current_data
  /\ pc' = "column_validate"
  /\ UNCHANGED <<inputs, elsewhere, executed_sql, llm_answer, regeneration_attempted, validator_response,
                 enhancer_response, column_validator_response, regenerator_response,
                 final_column_check, recheck_input, set_orders, result, run, prev_result>>

\* the set all_columns ColumnValidationAgent.process builds for input_data
ColumnsSet(input_data) ==
  LET sql_query == ColumnValidationInput(input_data)
  IN IF Truthy(sql_query) /\ ~HasCTE(sql_query) THEN AllColumns(sql_query) ELSE {}

\* Step 4: column validation. An exception raised inside the agent is not
\* caught by process_query and leaves it
ColumnValidate ==
  /\ pc = "column_validate"
  /\ \E all_columns \in {ColumnsSet(current_data)} :
       \E order \in OrdersFor(all_columns) :
         /\ set_orders' = Remember(all_columns, order)
         /\ IF ColumnValidationRaises(current_data, context, order)
            THEN /\ pc' = "raised"
                 /\ UNCHANGED <<column_validator_response, processing_log, current_data>>
            ELSE \E r \in {ColumnValidationProcess(current_data, context, order)} :
                   LET regenerate == ~r.success /\ Get(r.data, "needs_regeneration", FALSE)
                   IN /\ column_validator_response' = r
                      /\ processing_log' = Append(processing_log,
                           [agent |-> "ColumnValidation", success |-> r.success,
                            message |-> r.message, confidence |-> r.confidence,
                            missing_columns |-> Get(r.data, "missing_columns", <<>>),
                            substitutions |-> Get(r.data, "substitutions_made", <<>>)])
                      /\ current_data' =
                           IF ~regenerate /\ r.success THEN r.data ELSE current_data
                      /\ pc' = IF regenerate THEN "regenerate" ELSE "finalize"
  /\ UNCHANGED <<inputs, elsewhere, executed_sql, llm_answer, regeneration_attempted, validator_response,
                 enhancer_response, optimizer_response, regenerator_response,
                 final_column_check, recheck_input, result, run, prev_result>>

\* a variant of RegeneratedInput: the recheck reads the query that failed
RegeneratedInputOriginal(response) ==
  [sql_query |-> Get(response.data, "original_query", None)]

\* current_data = {"sql_query": regenerated_query}: what the recheck reads
RegeneratedInput(response) ==
  [sql_query |-> Get(response.data, "regenerated_query", None)]

\* Step 5: regeneration. The provider is asked only when a connector is
\* configured; asked again on a later run it gives the same answer
Regenerate ==
  /\ pc = "regenerate"
  /\ \E answer \in (IF llm_connector /\ llm_answer = NotAsked THEN LLMAnswers
                    ELSE {llm_answer}) :
       LET regeneration_data ==
             [regeneration_prompt |->
                Get(column_validator_response.data, "regeneration_prompt", None),
              original_query |-> Get(column_validator_response.data, "original_query", None)]
           r == RegeneratorProcess(regeneration_data, context, llm_connector, answer)
       IN /\ llm_answer' = answer
          /\ regenerator_response' = r
          /\ processing_log' = Append(processing_log,
               [agent |-> "SQLRegeneration", success |-> r.success,
                message |-> r.message, confidence |-> r.confidence])
          /\ regeneration_attempted' = (regeneration_attempted \/ r.success)
          /\ current_data' =
               IF r.success THEN RegeneratedInput(r)
               ELSE IF Truthy(Get(column_validator_response.data, "validated_query", None))
               THEN column_validator_response.data
               ELSE current_data
          /\ pc' = IF r.success THEN "recheck" ELSE "finalize"
  /\ UNCHANGED <<inputs, elsewhere, executed_sql, validator_response, enhancer_response, optimizer_response,
                 column_validator_response, final_column_check, recheck_input,
                 set_orders, result, run, prev_result>>

\* re-run column validation on the regenerated query
Recheck ==
  /\ pc = "recheck"
  /\ \E all_columns \in {ColumnsSet(current_data)} :
       \E order \in OrdersFor(all_columns) :
         /\ set_orders' = Remember(all_columns, order)
         /\ recheck_input' = current_data
         /\ IF ColumnValidationRaises(current_data, context, order)
            THEN /\ pc' = "raised"
                 /\ UNCHANGED <<final_column_check, processing_log, current_data>>
            ELSE \E r \in {ColumnValidationProcess(current_data, context, order)} :
                   /\ final_column_check' = r
                   /\ processing_log' = Append(processing_log,
                        [agent |-> "ColumnValidation-Recheck", success |-> r.success,
                         message |-> "Regenerated query validation: " \o r.message,
                         confidence |-> r.confidence])
                   /\ current_data' = IF r.success THEN r.data
                                      ELSE column_validator_response.data
                   /\ pc' = "finalize"
  /\ UNCHANGED <<inputs, elsewhere, executed_sql, llm_answer, regeneration_attempted, validator_response,
                 enhancer_response, optimizer_response, column_validator_response,
                 regenerator_response, result, run, prev_result>>

RECURSIVE SumSeq(_)
SumSeq(seq) == IF seq = <<>> THEN 0 ELSE Head(seq) + SumSeq(Tail(seq))

\* confidences = [log.get("confidence", 0.8) for log in processing_log if "confidence" in log]
Confidences(log) ==
  LET with == AtPositions(log, {k \in 1..Len(log) : "confidence" \in DOMAIN log[k]})
  IN [k \in 1..Len(with) |-> with[k].confidence]
\* the overall_confidence of an empty list of confidences
NoConfidence == 7 * Tenth
\* sum(confidences) / len(confidences) if confidences else 0.7
OverallConfidence(log) ==
  LET confidences == Confidences(log)
  IN IF confidences # <<>> THEN SumSeq(confidences) \div Len(confidences)
     ELSE NoConfidence
\* the threshold of `overall_confidence > 0.7`
ConfidenceThreshold == 7 * Tenth

\* a variant of FinalQuery: validated_query is not read
FinalQueryWithoutValidated(data, initial) ==
  Get(data, "regenerated_query",
    Get(data, "optimized_query", Get(data, "enhanced_query", initial)))

\* current_data.get("validated_query", current_data.get("regenerated_query", ...))
FinalQuery(data, initial) ==
  Get(data, "validated_query",
    Get(data, "regenerated_query",
      Get(data, "optimized_query", Get(data, "enhanced_query", initial))))

\* a Python value that is a bool or a str, written as repr() writes it
PyBool(b) == IF b THEN "True" ELSE "False"
PyStr(str) == "'" \o str \o "'"
\* bool(v) of such a value
IsTrue(v) == v # "False" /\ v # "''"

\* a variant of OverallSuccess: the syntax corrections are not counted
OverallSuccessIgnoringFixes(log, corrections, final_query, overall_confidence) ==
  LET critical_failures ==
        {k \in 1..Len(log) : ~log[k].success /\ log[k].agent \in {"DB2SyntaxValidator"}}
      has_valid_query == IF Truthy(final_query) THEN Strip(final_query) ELSE final_query
  IN IF critical_failures # {} THEN PyBool(FALSE)
     ELSE IF Truthy(has_valid_query) THEN PyStr(has_valid_query)
     ELSE PyBool(overall_confidence > ConfidenceThreshold)

\* overall_success: `a and (b or c or d)` yields the first operand that
\* decides it, so it is the stripped query itself when c decides
OverallSuccess(log, corrections, final_query, overall_confidence) ==
  LET critical_failures ==
        {k \in 1..Len(log) : ~log[k].success /\ log[k].agent \in {"DB2SyntaxValidator"}}
      has_valid_query == IF Truthy(final_query) THEN Strip(final_query) ELSE final_query
      has_syntax_fixes == Len(corrections) > 0
  IN IF critical_failures # {} THEN PyBool(FALSE)
     ELSE IF has_syntax_fixes THEN PyBool(TRUE)
     ELSE IF Truthy(has_valid_query) THEN PyStr(has_valid_query)
     ELSE PyBool(overall_confidence > ConfidenceThreshold)

\* confidence, final query, success and the returned dict
Finalize ==
  /\ pc = "finalize"
  /\ LET overall_confidence == OverallConfidence(processing_log)
         final_query == FinalQuery(current_data, initial_query)
     IN result' =
          [returned |-> TRUE,
           success |-> OverallSuccess(processing_log,
                         Get(validator_response.data, "corrections", <<>>),
                         final_query, overall_confidence),
           final_query |-> final_query,
           original_query |-> initial_query,
           processing_log |-> processing_log,
           overall_confidence |-> overall_confidence,
           regeneration_attempted |-> regeneration_attempted,
           improvements |->
             [syntax_corrections |-> Len(Get(validator_response.data, "issues", <<>>)),
              where_enhancements |-> Len(Get(enhancer_response.data, "enhancements", <<>>)),
              optimizations |-> Len(Get(optimizer_response.data, "optimizations", <<>>)),
              column_fixes |->
                Len(Get(column_validator_response.data, "substitutions_made", <<>>)),
              regeneration_needed |->
                Get(column_validator_response.data, "needs_regeneration", FALSE)]]
  /\ pc' = "done"
  /\ UNCHANGED <<inputs, elsewhere, executed_sql, llm_answer, current_data, processing_log, regeneration_attempted,
                 responses, recheck_input, set_orders, run, prev_result>>

\* process_query is called again on the same request by a new process: the
\* provider answers as before, the sets may iterate in another order
Rerun ==
  /\ pc = "done"
  /\ run < MaxRuns
  /\ run' = run + 1
  /\ prev_result' = result
  /\ StartRun
  /\ UNCHANGED <<inputs, elsewhere, llm_answer>>

\* DatabaseManager.execute_query on the query the pipeline returned; the
\* manager has the dialect the pipeline was run for
ExecuteQuery ==
  /\ pc = "done"
  /\ executed_sql = None
  /\ IsTrue(result.success)
  /\ result.final_query # None
  /\ \E sql_query \in {IF context.db_type = "SQLite"
                       THEN convert_db2_to_sqlite(result.final_query)
                       ELSE result.final_query} :
        executed_sql' = sql_query
  /\ UNCHANGED <<inputs, elsewhere, llm_answer, pc, current_data, processing_log,
                 regeneration_attempted, responses, recheck_input, set_orders,
                 result, run, prev_result>>

Next ==
  \/ Validate
  \/ Enhance
  \/ Optimize
  \/ ColumnValidate
  \/ Regenerate
  \/ Recheck
  \/ Finalize
  \/ ExecuteQuery
  \/ Rerun

Spec == Init /\ [][Next]_vars

(***************************************************************************)
(* Properties of process_query                                             *)
(***************************************************************************)
\* the stages in the order of the state machine
StageOrder ==
  <<"DB2SyntaxValidator", "WhereClauseEnhancer", "QueryOptimizer", "ColumnValidation",
    "SQLRegeneration", "ColumnValidation-Recheck">>

LoggedAgents == [k \in 1..Len(processing_log) |-> processing_log[k].agent]
Logged(agent) == \E k \in 1..Len(processing_log) : processing_log[k].agent = agent
EntryOf(agent) ==
  processing_log[CHOOSE k \in 1..Len(processing_log) : processing_log[k].agent = agent]
Returned == pc = "done"
\* text with at least one character that is not white space
NonBlank(text) == text # None /\ Strip(text) # ""

\* how many stages have returned when process_query is at a step
StagesReturned ==
  [p \in {"validate", "enhance", "optimize", "column_validate", "regenerate", "recheck"} |->
     CASE p = "validate" -> 0 [] p = "enhance" -> 1 [] p = "optimize" -> 2
       [] p = "column_validate" -> 3 [] p = "regenerate" -> 4 [] p = "recheck" -> 5]

\* C1: at every moment the log is the first stages of DB2SyntaxValidator,
\* WhereClauseEnhancer, QueryOptimizer, ColumnValidation, SQLRegeneration,
\* ColumnValidation-Recheck in that order, each at most once; a stage is at
\* work only when exactly its predecessors are logged; a returned log holds at
\* least the first four, also when DB2SyntaxValidator failed.
C1_StagesInOrder ==
  /\ Len(processing_log) <= Len(StageOrder)
  /\ LoggedAgents = SubSeq(StageOrder, 1, Len(processing_log))
  /\ pc \in DOMAIN StagesReturned => Len(processing_log) = StagesReturned[pc]
  /\ Returned => /\ Len(processing_log) >= 4
                 /\ result.processing_log = processing_log

\* a run returned with the stages after a failed syntax validation logged
C1_Witness ==
  /\ Returned
  /\ ~processing_log[1].success
  /\ Len(processing_log) >= 4

\* C2: in a returned log SQLRegeneration appears exactly when the first
\* ColumnValidation failed asking for regeneration, ColumnValidation-Recheck
\* exactly when SQLRegeneration succeeded, and the recheck read the
\* regenerated query.
C2_TailGuards ==
  /\ Returned =>
       /\ Logged("SQLRegeneration") <=>
            /\ ~column_validator_response.success
            /\ Get(column_validator_response.data, "needs_regeneration", FALSE)
       /\ Logged("ColumnValidation-Recheck") <=>
            /\ Logged("SQLRegeneration")
            /\ EntryOf("SQLRegeneration").success
  /\ Logged("ColumnValidation-Recheck") =>
       /\ "regenerated_query" \in DOMAIN regenerator_response.data
       /\ recheck_input = [sql_query |-> regenerator_response.data["regenerated_query"]]

\* a returned run whose recheck read a regenerated query that differs from
\* the query that failed
C2_Witness ==
  /\ Returned
  /\ Len(processing_log) = 6
  /\ recheck_input.sql_query # column_validator_response.data.original_query

\* C3: no exception of an agent leaves process_query.
C3_NoExceptionEscapes == pc # "raised"

\* C4: the returned success is true exactly when the syntax validator did
\* not fail and there is a syntax correction, or the final query has a
\* character that is not white space, or the confidence is above 0.7.
C4_SuccessRule ==
  Returned =>
    (IsTrue(result.success) <=>
       /\ processing_log[1].success
       /\ \/ Len(Get(validator_response.data, "corrections", <<>>)) > 0
          \/ NonBlank(result.final_query)
          \/ result.overall_confidence > ConfidenceThreshold)

\* success rests on the syntax corrections alone
C4_Witness ==
  /\ Returned
  /\ IsTrue(result.success)
  /\ ~NonBlank(result.final_query)
  /\ result.overall_confidence <= ConfidenceThreshold

\* C5: on the regeneration path a recheck that succeeds gives success, and a
\* recheck that fails gives failure with the first Column Validator's query
\* as final_query.
C5_RegenerationOutcome ==
  (Returned /\ Logged("ColumnValidation-Recheck")) =>
    IF final_column_check.success
    THEN IsTrue(result.success)
    ELSE /\ ~IsTrue(result.success)
         /\ result.final_query = Get(column_validator_response.data, "validated_query", None)

\* C6: a returned result with success has a final query with a character
\* that is not white space.
C6_SuccessHasQuery ==
  (Returned /\ IsTrue(result.success)) => NonBlank(result.final_query)

\* C7: the returned overall_confidence is the mean of the logged
\* confidences and lies between 0 and 1.
C7_OverallConfidence ==
  Returned =>
    /\ Confidences(processing_log) # <<>>
    /\ result.overall_confidence * Len(Confidences(processing_log))
         = SumSeq(Confidences(processing_log))
    /\ result.overall_confidence >= 0
    /\ result.overall_confidence <= One

\* the responses of the agents that have answered
Answered ==
  {r \in {validator_response, enhancer_response, optimizer_response,
          column_validator_response, regenerator_response, final_column_check} :
     r # NotCalled}

\* C8: every agent's confidence lies between 0 and 1, and the Regenerator's
\* after an answer of the provider is at most 0.8.
C8_ConfidenceRange ==
  /\ \A r \in Answered : r.confidence >= 0 /\ r.confidence <= One
  /\ (regenerator_response # NotCalled /\ llm_connector /\ regenerator_response.success)
       => regenerator_response.confidence <= DefaultRegenerationConfidence

\* the provider was asked and raised
ProviderRaised == llm_connector /\ llm_answer # NotAsked /\ llm_answer.raises

\* C9: when the provider raises, the Regenerator answers success=false with
\* the original query in its data; the failed step is logged, no recheck
\* runs, and final_query is the first Column Validator's validated_query.
C9_ProviderFailure ==
  (ProviderRaised /\ Logged("SQLRegeneration")) =>
    /\ ~regenerator_response.success
    /\ Get(regenerator_response.data, "original_query", None)
         = column_validator_response.data.original_query
    /\ ~EntryOf("SQLRegeneration").success
    /\ ~Logged("ColumnValidation-Recheck")
    /\ pc \in {"finalize", "done"}
    /\ Returned => result.final_query = column_validator_response.data.validated_query

\* a returned run in which the provider raised
C9_Witness ==
  /\ Returned
  /\ ProviderRaised
  /\ Len(processing_log) = 5
  /\ NonBlank(result.final_query)

\* C10: a second run on the same request, the provider answering as before,
\* returns the final_query and the processing_log of the first.
C10_Deterministic ==
  (Returned /\ run >= 2) =>
    /\ result.final_query = prev_result.final_query
    /\ result.processing_log = prev_result.processing_log

(***************************************************************************)
(* Properties of the agents                                                *)
(***************************************************************************)
\* the query begins with a WITH prelude
WithPrelude(query) == query # None /\ StartsWith(Upper(query), "WITH ")
\* the query an agent that answered was given
InputOf(response) == Get(response.data, "original_query", None)

\* C11: for a query with a WITH prelude, whatever the question, the
\* enhancer returns the query unchanged as enhanced_query, and the column
\* validator succeeds with needs_regeneration false and validated_query equal
\* to the query it was given.
C11_CteUntouched ==
  /\ (enhancer_response.success /\ WithPrelude(InputOf(enhancer_response))) =>
        enhancer_response.data.enhanced_query = InputOf(enhancer_response)
  /\ \A r \in {column_validator_response, final_column_check} :
        WithPrelude(InputOf(r)) =>
          /\ r.success
          /\ ~r.data.needs_regeneration
          /\ r.data.validated_query = InputOf(r)

\* the qualified references of query that the registry does not have
UnknownReferences(query) == CheckColumns(query, context, <<>>).missing_columns

\* C12: when the column validator succeeds after substituting columns,
\* every reference alias.column or table.column of validated_query whose
\* table is in the registry names a column of that table, also in a query
\* over two tables of which one has the column and the other lacks it.
C12_SubstitutionSound ==
  \A r \in {column_validator_response, final_column_check} :
    (r.success /\ Get(r.data, "substitutions_made", <<>>) # <<>>) =>
      UnknownReferences(r.data.validated_query) = <<>>

\* text has the identifier word in it, in any letter case
HasWord(text, word) == text # None /\ Found(Search(Sq(<<Wb, LI(word), Wb>>), text, TRUE))
\* the columns of the registry tables, in upper case
RegistryColumns ==
  UNION {Range(UpperAll(context.columns_available[t])) : t \in DOMAIN context.columns_available}
\* the synonyms of the dictionary entry that the registry has
PresentSynonyms(entry) == Range(entry.v) \cap RegistryColumns
\* the dictionary entries whose column the initial SQL references although
\* the registry lacks it, while it has a synonym
SubstitutableEntries ==
  {m \in 1..Len(similar_column_mappings) :
     /\ HasWord(initial_query, similar_column_mappings[m].k)
     /\ similar_column_mappings[m].k \notin RegistryColumns
     /\ PresentSynonyms(similar_column_mappings[m]) # {}}

\* C13: when the initial SQL references, anywhere in the statement, a
\* column that the registry lacks and that has a dictionary synonym in the
\* registry, the returned final_query has a synonym and no longer the missing
\* name, the ColumnValidation step records a substitution,
\* regeneration_attempted is false and success is true.
C13_SynonymSubstituted ==
  Returned =>
    \A m \in SubstitutableEntries :
      /\ \E synonym \in PresentSynonyms(similar_column_mappings[m]) :
           HasWord(result.final_query, synonym)
      /\ ~HasWord(result.final_query, similar_column_mappings[m].k)
      /\ \E note \in Range(EntryOf("ColumnValidation").substitutions) :
           Contains(note, similar_column_mappings[m].k \o " -> ")
      /\ ~result.regeneration_attempted
      /\ IsTrue(result.success)

\* FETCH FIRST n ROWS ONLY, n captured
FetchFirstRows ==
  Sq(<<LI("FETCH"), Sp1, LI("FIRST"), Sp1, Grp(1, Dg1), Sp1, LI("ROWS"), Sp1, LI("ONLY")>>)
\* the numbers n of the clauses of text that match pattern (n is group 1)
Counts(pattern, text) ==
  LET Numbers(ms) == {Group(text, ms[k], 1) : k \in 1..Len(ms)}
  IN Numbers(FindAll(pattern, text, TRUE))

\* C14: with dialect DB2, when the initial SQL has a LIMIT n clause the
\* returned final_query has FETCH FIRST n ROWS ONLY and no LIMIT n,
\* improvements.syntax_corrections is at least 1 and success is true; a query
\* that already has FETCH FIRST n ROWS ONLY keeps it and has no LIMIT clause.
C14_LimitToFetchFirst ==
  (Returned /\ context.db_type = "DB2") =>
    /\ \A n \in Counts(LimitPattern, initial_query) :
         /\ n \in Counts(FetchFirstRows, result.final_query)
         /\ n \notin Counts(LimitPattern, result.final_query)
         /\ result.improvements.syntax_corrections >= 1
         /\ IsTrue(result.success)
    /\ \A n \in Counts(FetchFirstRows, initial_query) :
         /\ n \in Counts(FetchFirstRows, result.final_query)
         /\ Counts(LimitPattern, result.final_query) = {}

\* the SQLite constructs of the rule table other than the row limit, and the
\* DB2-only constructs other than FETCH FIRST
SqliteConstructs == {"STRFTIME(", "DATE('NOW')", "DATETIME('NOW')"}
Db2Constructs == {"CURRENT DATE", "YEAR("}
HasAny(text, constructs) == \E c \in constructs : Contains(Upper(text), c)

\* C15: the Syntax Validator rewrites toward the dialect of the context: for
\* SQLite a LIMIT n of the input stays and no DB2-only construct remains in
\* validated_query; for DB2 no SQLite construct of the rule table remains.
C15_TowardDialect ==
  validator_response.success =>
    IF context.db_type = "SQLite"
    THEN /\ Counts(LimitPattern, InputOf(validator_response))
              \subseteq Counts(LimitPattern, validator_response.data.validated_query)
         /\ Counts(FetchFirstRows, validator_response.data.validated_query) = {}
         /\ ~HasAny(validator_response.data.validated_query, Db2Constructs)
    ELSE /\ Counts(LimitPattern, validator_response.data.validated_query) = {}
         /\ ~HasAny(validator_response.data.validated_query, SqliteConstructs)

WhereWord == Sq(<<Wb, LI("WHERE"), Wb>>)
\* GROUP BY, ORDER BY or HAVING followed later by WHERE
WhereAfterClause ==
  Sq(<<Wb, Alt(<<Sq(<<LI("GROUP"), Sp1, LI("BY")>>), Sq(<<LI("ORDER"), Sp1, LI("BY")>>),
                 LI("HAVING")>>), Wb, AnyGreedy0, WhereWord>>)
\* FROM followed later by WHERE
WhereAfterFrom == Sq(<<Wb, LI("FROM"), Wb, AnyGreedy0, WhereWord>>)
\* the predicate of the WHERE clause of query; "" when it has none
WherePredicate(query) ==
  LET Body(m) ==
        IF Found(m)
        THEN Strip(Slice(query, MEnd(m), find_where_end(query, MEnd(m))))
        ELSE ""
  IN Body(Search(WhereWord, query, TRUE))

\* C16: for a flat query to which the Predicate Enhancer reports additions,
\* enhanced_query has exactly one WHERE, after FROM and before any GROUP BY /
\* ORDER BY / HAVING, and its predicate still holds the input's predicate
\* (also one that begins with a parenthesis) next to the added conjuncts.
C16_SingleWhere ==
  (/\ enhancer_response.success
   /\ ~WithPrelude(InputOf(enhancer_response))
   /\ enhancer_response.data.enhancements # <<>>) =>
      /\ Len(FindAll(WhereWord, enhancer_response.data.enhanced_query, TRUE)) = 1
      /\ Found(Search(WhereAfterFrom, enhancer_response.data.enhanced_query, TRUE))
      /\ ~Found(Search(WhereAfterClause, enhancer_response.data.enhanced_query, TRUE))
      /\ Contains(WherePredicate(enhancer_response.data.enhanced_query),
                  WherePredicate(InputOf(enhancer_response)))
      /\ WherePredicate(enhancer_response.data.enhanced_query)
           # WherePredicate(InputOf(enhancer_response))

EndsWith(s, suffix) ==
  Len(s) >= Len(suffix) /\ SubSeq(s, Len(s) - Len(suffix) + 1, Len(s)) = suffix
\* the query has a LIMIT n or a FETCH FIRST n ROWS ONLY clause
HasRowLimit(query) ==
  \/ Found(Search(Sq(<<Wb, LimitPattern>>), query, TRUE))
  \/ Found(Search(Sq(<<Wb, FetchFirstRows>>), query, TRUE))
\* the query calls SUM, COUNT, AVG, MAX or MIN
HasAggregation(query) ==
  Found(Search(Sq(<<Wb, Alt(<<LI("SUM"), LI("COUNT"), LI("AVG"), LI("MAX"), LI("MIN")>>),
                    Sp0, L("(")>>), query, TRUE))
DefaultLimitClause ==
  IF context.db_type = "DB2" THEN "FETCH FIRST 1000 ROWS ONLY" ELSE "LIMIT 1000"

\* C17: for a query without row limit and without aggregation the Optimizer's
\* optimized_query ends with the dialect's limit clause of 1000 rows; a query
\* with an aggregation or with a row limit is returned unchanged.
C17_DefaultRowLimit ==
  optimizer_response.success =>
    IF ~HasRowLimit(InputOf(optimizer_response)) /\ ~HasAggregation(InputOf(optimizer_response))
    THEN EndsWith(optimizer_response.data.optimized_query, DefaultLimitClause)
    ELSE optimizer_response.data.optimized_query = InputOf(optimizer_response)

(***************************************************************************)
(* Properties of the dialect rewrites                                      *)
(***************************************************************************)
\* '...' literals, -- comments and /* */ comments
ProtectedText ==
  Alt(<<Sq(<<L("'"), NotSQuote0, L("'")>>), Sq(<<L("--"), DotGreedy0>>),
        Sq(<<L("/*"), AnyLazy0, L("*/")>>)>>)
\* the literals that are arguments of the SQLite constructs of the rule table
ConstructLiterals == {"'now'", "'%Y'", "'%m'"}
\* the literals and comments of text, in order, the arguments of the rule
\* table's constructs left out
Protected(text) ==
  LET Own(texts) == SelectSeqBy(texts, Range(texts) \ ConstructLiterals)
      Texts(ms) == Own([k \in 1..Len(ms) |-> Group0(text, ms[k])])
  IN Texts(FindAll(ProtectedText, text, FALSE))

\* C18: the dialect rewrites leave string literals and comments as they are:
\* the literals and comments of the Syntax Validator's validated_query are
\* those of its input, and those of the text _convert_db2_to_sqlite hands to
\* the database are those of the query it was given.
C18_LiteralsUntouched ==
  /\ validator_response.success =>
       Protected(validator_response.data.validated_query)
         = Protected(InputOf(validator_response))
  /\ executed_sql # None => Protected(executed_sql) = Protected(result.final_query)

\* text without its white space
Squeeze(text) == Sub(Sp1, <<>>, text, FALSE)
\* a DB2 text: no LIMIT clause and no SQLite construct
IsDb2Text(query) ==
  Counts(LimitPattern, query) = {} /\ ~HasAny(query, SqliteConstructs)

\* C19: a DB2 query translated for SQLite by _convert_db2_to_sqlite and then
\* back by the Syntax Validator's rewrite is the query again, up to white
\* space.
C19_RoundTrip ==
  (/\ executed_sql # None
   /\ context.db_type = "SQLite"
   /\ IsDb2Text(result.final_query)) =>
      Squeeze(CorrectedQuery(executed_sql)) = Squeeze(result.final_query)

(***************************************************************************)
(* Properties of identifier comparison                                     *)
(***************************************************************************)
\* the context with the table names of its registry in upper case
UpperKeyed(ctx) ==
  [ctx EXCEPT
     !.tables_available = UpperAll(ctx.tables_available),
     !.columns_available =
        [t \in {Upper(k) : k \in DOMAIN ctx.columns_available} |->
           ctx.columns_available[CHOOSE k \in DOMAIN ctx.columns_available : Upper(k) = t]]]
\* what a response says about columns
ColumnFindings(response) ==
  [missing_columns |-> Get(response.data, "missing_columns", <<>>),
   needs_regeneration |-> Get(response.data, "needs_regeneration", FALSE),
   substitutions_made |-> Get(response.data, "substitutions_made", <<>>)]
\* the Column Validator called again on the input of response, the registry's
\* table names in upper case
ColumnFindingsUpperKeyed(response) ==
  LET Again(input_data, ctx) ==
        {ColumnFindings(ColumnValidationProcess(input_data, ctx, order)) :
           order \in {o \in OrdersFor(ColumnsSet(input_data)) :
                        ~ColumnValidationRaises(input_data, ctx, o)}}
  IN Again([sql_query |-> InputOf(response)], UpperKeyed(context))

\* C20: the letter case of a table name of the registry changes nothing in
\* what the validators find: the Column Validator's missing columns,
\* needs_regeneration and substitutions, and the Syntax Validator's issues,
\* are those found with the table names in upper case.
C20_CaseInsensitive ==
  /\ (column_validator_response # NotCalled /\ InputOf(column_validator_response) # None) =>
       ColumnFindingsUpperKeyed(column_validator_response)
         \subseteq {ColumnFindings(column_validator_response)}
  /\ validator_response.success =>
       ValidatorProcess([sql_query |-> InputOf(validator_response)], UpperKeyed(context),
                        validator_response.data.tables_used).data.issues
         = validator_response.data.issues

(***************************************************************************)
(* LLMConnector                                                            *)
(***************************************************************************)
\* the providers generate_sql dispatches on, and one it does not know
Providers == {"ollama", "gemini", "openai", "anthropic", "deepseek", "mistral", "openrouter"}
\* the package each provider's branch of check_connection asks for
\* (GEMINI_AVAILABLE, OPENAI_AVAILABLE, ANTHROPIC_AVAILABLE); the openrouter
\* branch does not ask and fails on the missing name
PackageOf(provider) ==
  CASE provider = "gemini" -> "google.generativeai"
    [] provider = "anthropic" -> "anthropic"
    [] OTHER -> "openai"

\* LLMConnector.__init__ with check_connection: the fields of the instance
LLMConnector(provider, model_name, api_key, env) ==
  LET Instance(connected, client) ==
        [provider |-> provider, model_name |-> model_name, api_key |-> api_key,
         connected |-> connected, client |-> client]
  IN CASE provider = "ollama" -> Instance(env.ollama_tags = "200", None)
       [] provider = "gemini" ->
            Instance(PackageOf(provider) \in env.installed /\ Truthy(api_key), None)
       [] provider \in Providers \ {"ollama", "gemini"} ->
            IF PackageOf(provider) \in env.installed /\ Truthy(api_key)
            THEN Instance(TRUE, provider \o " client")
            ELSE Instance(FALSE, None)
       [] OTHER -> Instance(FALSE, None)

\* what generate_sql returns: a JSON value (json.loads of the reply) or the
\* error dict of one of its except clauses
Answer(kind, value) == [kind |-> kind, value |-> value]
ErrorDict(message) == Answer("dict", [error |-> message])
\* the name shown in the error messages of each provider's branch
ErrorName(provider) ==
  CASE provider = "gemini" -> "Gemini API"
    [] provider = "ollama" -> "Ollama"
    [] provider = "openai" -> "OpenAI"
    [] provider = "anthropic" -> "Anthropic"
    [] provider = "deepseek" -> "DeepSeek"
    [] provider = "mistral" -> "Mistral"
    [] OTHER -> "OpenRouter"

\* whether generate_sql on this instance gets as far as sending a request:
\* the gemini branch needs the package, the ollama branch nothing, the other
\* branches self.client
SendsRequest(c, env) ==
  CASE c.provider = "ollama" -> TRUE
    [] c.provider = "gemini" -> PackageOf(c.provider) \in env.installed
    [] c.provider \in Providers -> c.client # None
    [] OTHER -> FALSE

\* LLMConnector.generate_sql for the reply the backend gives (read only when
\* a request is sent)
generate_sql(c, env, reply) ==
  IF c.provider \notin Providers THEN ErrorDict("Unsupported provider")
  ELSE IF ~SendsRequest(c, env)
  THEN ErrorDict(ErrorName(c.provider) \o " Error: "
                 \o (IF c.provider = "gemini" THEN "name 'genai' is not defined"
                     ELSE "'NoneType' object has no attribute"))
  ELSE CASE reply.kind = "raises" ->
              ErrorDict(ErrorName(c.provider) \o " Error: " \o reply.text)
         [] reply.kind = "status" ->
              IF c.provider = "ollama"
              THEN ErrorDict("Ollama HTTP error: " \o reply.text)
              ELSE ErrorDict(ErrorName(c.provider) \o " Error: " \o reply.text)
         [] reply.kind = "text" ->
              ErrorDict(ErrorName(c.provider) \o " Error: Expecting value")
         [] OTHER -> Answer(reply.kind, reply.value)

\* what can be installed, and what GET /api/tags of the Ollama server gives
Packages == {"google.generativeai", "openai", "anthropic"}
Environments ==
  [installed : SUBSET Packages, ollama_tags : {"200", "500", "refused"}]
\* what the provider's backend does with a request: a JSON object (value), a
\* JSON list, text that is no JSON, an HTTP error, an exception
LLMAnswerFields ==
  [sql_query |-> "SELECT MARKET FROM T1", explanation |-> "e", confidence |-> 108]
BackendReplies ==
  {[kind |-> "dict", value |-> LLMAnswerFields, text |-> ""],
   [kind |-> "dict", value |-> EmptyDict, text |-> ""],
   [kind |-> "list", value |-> EmptyDict, text |-> ""],
   [kind |-> "text", value |-> EmptyDict, text |-> "no json"],
   [kind |-> "status", value |-> EmptyDict, text |-> "503"],
   [kind |-> "raises", value |-> EmptyDict, text |-> "timed out"]}
MaxRequests == 2

\* one connector is constructed in some environment
ConnectorInit ==
  /\ PipelineIdle
  /\ environment \in Environments
  /\ \E provider \in Providers \cup {"cohere"}, api_key \in {None, "key"} :
        connector = LLMConnector(provider, "model", api_key, environment)
  /\ backend_requests = 0
  /\ generated = [kind |-> "none"]
  /\ GeneratorIdle
  /\ BackendIdle

\* a call of generate_sql on the connector
GenerateSql ==
  /\ backend_requests < MaxRequests
  /\ \E reply \in BackendReplies :
        /\ generated' = generate_sql(connector, environment, reply)
        /\ backend_requests' = IF SendsRequest(connector, environment)
                               THEN backend_requests + 1 ELSE backend_requests
  /\ UNCHANGED <<pipeline_vars, generator_vars, backend_vars, connector, environment>>

ConnectorNext == GenerateSql
ConnectorSpec == ConnectorInit /\ [][ConnectorNext]_vars

IsProviderError(answer) ==
  answer.kind = "dict" /\ "error" \in DOMAIN answer.value
IsLLMAnswer(answer) ==
  answer.kind = "dict" /\ "sql_query" \in DOMAIN answer.value

\* C26: a connector whose liveness check failed refuses generate_sql (every call
\* returns a ProviderError and no request reaches the backend), and whatever
\* generate_sql returns on any connector is an object with the LLMAnswer fields
\* or a ProviderError
C26_DisconnectedRefuses ==
  /\ ~connector.connected => backend_requests = 0
  /\ generated.kind # "none" =>
       /\ ~connector.connected => IsProviderError(generated)
       /\ IsProviderError(generated) \/ IsLLMAnswer(generated)

(***************************************************************************)
(* ParallelSQLGenerator (create_interactive_app.py)                        *)
(***************************************************************************)
\* str.split(sep) for a separator of any length
SplitStr(s, sep) ==
  LET Parts(ms) ==
        [j \in 1..(Len(ms) + 1) |->
           SubSeq(s, IF j = 1 THEN 1 ELSE ms[j - 1].e,
                     IF j > Len(ms) THEN Len(s) ELSE ms[j].st - 1)]
  IN Parts(FindAll(L(sep), s, FALSE))

\* the test both compare_results and select_best_result make on a result
IsValidResult(r) == "sql_query" \in DOMAIN r /\ ~Truthy(Get(r, "error", None))
ValidResults(result_list) ==
  SelectSeqBy(result_list, {r \in Range(result_list) : IsValidResult(r)})

extract_select_part(query) ==
  LET Part(parts) == IF Len(parts) > 1 THEN Strip(Replace(parts[1], "SELECT", "")) ELSE ""
  IN Part(SplitStr(query, "FROM"))
extract_from_part(query) ==
  LET Part(parts) ==
        IF Len(parts) > 1
        THEN Strip(SplitStr(SplitStr(SplitStr(parts[2], "WHERE")[1], "GROUP BY")[1],
                            "ORDER BY")[1])
        ELSE ""
  IN Part(SplitStr(query, "FROM"))
extract_where_part(query) ==
  IF Contains(query, "WHERE")
  THEN Strip(SplitStr(SplitStr(SplitStr(query, "WHERE")[2], "GROUP BY")[1], "ORDER BY")[1])
  ELSE ""

keyword_pattern ==
  Sq(<<Wb, Cls(FALSE, UpperLetters \o "_", FALSE, FALSE, FALSE, 1, Inf, TRUE), Wb>>)
KeywordsOf(where) ==
  LET Words(ms) == {Group0(where, ms[k]) : k \in 1..Len(ms)}
  IN Words(FindAll(keyword_pattern, where, FALSE))
\* check_where_similarity: the ratio test is len(intersection)/len(union) > 0.5
check_where_similarity(where_parts) ==
  LET Ratio(sets) ==
        LET intersection == {w \in UNION sets : \A ks \in sets : w \in ks}
            union == UNION sets
        IN IF union = {} THEN TRUE
           ELSE 2 * Cardinality(intersection) > Cardinality(union)
      Similar(filled) ==
        IF Len(filled) < 2 THEN TRUE
        ELSE Ratio({KeywordsOf(filled[k]) : k \in 1..Len(filled)})
  IN IF \A k \in 1..Len(where_parts) : where_parts[k] = "" THEN TRUE
     ELSE Similar(SelectSeqBy(where_parts, Range(where_parts) \ {""}))

\* compare_results (the question is not read)
compare_results(result_list) ==
  LET Normalized(query) == Strip(Replace(Replace(Upper(query), "\n", " "), "  ", " "))
      Compared(normalized_queries) ==
        LET select_match ==
              Cardinality({extract_select_part(q) : q \in Range(normalized_queries)}) = 1
            from_match ==
              Cardinality({extract_from_part(q) : q \in Range(normalized_queries)}) = 1
            where_similarity ==
              check_where_similarity([k \in 1..Len(normalized_queries) |->
                                        extract_where_part(normalized_queries[k])])
            Level(s, f, w) ==
              [status |-> "compared", select_match |-> s, from_match |-> f,
               where_similarity |-> w, overall_similarity |-> s /\ f /\ w,
               confidence_level |-> IF s /\ f /\ w THEN "HIGH"
                                    ELSE IF s \/ f THEN "MEDIUM" ELSE "LOW"]
        IN Level(select_match, from_match, where_similarity)
      Of(valid) ==
        IF Len(valid) < 2
        THEN [status |-> "insufficient_results",
              message |-> "Not enough valid queries to compare"]
        ELSE Compared([k \in 1..Len(valid) |-> Normalized(valid[k].sql_query)])
  IN Of(ValidResults(result_list))

\* the score of select_best_result in units of 1/120:
\* confidence * 100 + len(explanation) * 0.1 + len(tables_used) * 5 + len(columns_used) * 2
quality_score(r) ==
  Get(r, "confidence", 0) * 100 + Len(Get(r, "explanation", "")) * Tenth
  + Len(Get(r, "tables_used", <<>>)) * 5 * One
  + Len(Get(r, "columns_used", <<>>)) * 2 * One
\* the loop of select_best_result stores the score in each valid result
Scored(r) ==
  IF IsValidResult(r)
  THEN [key \in DOMAIN r \cup {"quality_score"} |->
          IF key = "quality_score" THEN quality_score(r) ELSE r[key]]
  ELSE r
\* max(valid_results, key=...): the first result with the highest score
FirstMax(valid) ==
  valid[MinOf({k \in 1..Len(valid) :
                 \A j \in 1..Len(valid) : quality_score(valid[j]) <= quality_score(valid[k])})]
select_best_result(result_list) ==
  LET Best(valid) ==
        IF Len(valid) = 0
        THEN (IF Len(result_list) > 0 THEN result_list[1] ELSE EmptyDict)
        ELSE Scored(FirstMax(valid))
  IN Best(ValidResults(result_list))

\* the configurations a generator is constructed with: the first n of six
\* providers that pass the liveness check, and a list in which two fail it
Config(provider, api_key) ==
  [provider |-> provider, model_name |-> provider \o "-model", api_key |-> api_key]
MaxProviders == 4
LiveConfigs ==
  <<Config("gemini", "key"), Config("openai", "key"), Config("deepseek", "key"),
    Config("anthropic", "key"), Config("mistral", "key"), Config("openrouter", "key")>>
ProviderLists ==
  {SubSeq(LiveConfigs, 1, n) : n \in 0..Min(MaxProviders, Len(LiveConfigs))}
  \cup {<<Config("ollama", None), Config("openai", "key"), Config("mistral", None),
          Config("deepseek", "key")>>}
\* every package is installed and no Ollama server runs
GeneratorEnvironment == [installed |-> Packages, ollama_tags |-> "refused"]

SqlReply(sql_query) ==
  [kind |-> "dict", text |-> "",
   value |-> [sql_query |-> sql_query, explanation |-> "e", confidence |-> 108]]
\* a backend that never answers
NeverReplies == [kind |-> "never", value |-> EmptyDict, text |-> ""]
ErrorReply == [kind |-> "raises", value |-> EmptyDict, text |-> "connection reset"]
ListReply == [kind |-> "list", value |-> EmptyDict, text |-> ""]
GeneratorReplies ==
  {SqlReply("SELECT MARKET FROM T1 WHERE MARKET = 1"),
   SqlReply("SELECT MARKET FROM T1"),
   SqlReply("SELECT OPPTY_ID FROM T2 WHERE MARKET = 2"),
   SqlReply("SELECT SALES_STAGE FROM T3 WHERE SALES_STAGE = 1"),
   SqlReply(""),
   ErrorReply, ListReply, NeverReplies}
FewReplies == {SqlReply("SELECT MARKET FROM T1"), ErrorReply}

ProvidersOf(configs) == {configs[k].provider : k \in 1..Len(configs)}
\* ParallelSQLGenerator.__init__: the connectors that passed the liveness check
ConnectedOf(configs) ==
  LET Built(all) == SelectSeqBy(all, {c \in Range(all) : c.connected})
  IN Built([k \in 1..Len(configs) |->
              LLMConnector(configs[k].provider, configs[k].model_name,
                           configs[k].api_key, GeneratorEnvironment)])

\* a generator has been constructed; no other component is in use
GeneratorInit ==
  /\ PipelineIdle
  /\ ConnectorIdle
  /\ BackendIdle
  /\ providers_config \in ProviderLists
  /\ connectors = ConnectedOf(providers_config)
  /\ answers \in [ProvidersOf(providers_config) ->
                    IF Len(providers_config) > 3 THEN FewReplies ELSE GeneratorReplies]
  /\ generator_pc = "constructed"
  /\ futures = <<>>
  /\ calls = <<>>
  /\ results = <<>>
  /\ outcome = [returned |-> FALSE]

\* generate_parallel up to the submission of the workers (for connector in
\* self.connectors[:3]); the pool has three threads, so every worker starts
GenerateParallel ==
  /\ generator_pc = "constructed"
  /\ generator_pc' = "running"
  /\ futures' = [k \in 1..Min(3, Len(connectors)) |-> "running"]
  /\ results' = <<>>
  /\ UNCHANGED <<pipeline_vars, connector_vars, backend_vars, providers_config, connectors, answers,
                 calls, outcome>>

\* generate_with_provider: the result of generate_sql with provider, model and
\* generation_time added (the time is measured; 0 here), or the dict of the
\* except clause when the result takes no item assignment
generate_with_provider(c, reply) ==
  LET Tagged(r) ==
        [key \in DOMAIN r \cup {"provider", "model", "generation_time"} |->
           CASE key = "provider" -> c.provider
             [] key = "model" -> c.model_name
             [] key = "generation_time" -> 0
             [] OTHER -> r[key]]
      Of(answer) ==
        IF answer.kind = "dict" THEN Tagged(answer.value)
        ELSE [provider |-> c.provider, model |-> c.model_name,
              error |-> "list indices must be integers or slices, not str",
              generation_time |-> 0]
  IN Of(generate_sql(c, GeneratorEnvironment, reply))

\* a worker's call of generate_sql returns and as_completed hands its result to
\* the loop that appends it; a call that never returns leaves its worker running
WorkerCompletes ==
  /\ generator_pc = "running"
  /\ \E k \in DOMAIN futures :
        /\ futures[k] = "running"
        /\ answers[connectors[k].provider].kind # "never"
        /\ futures' = [futures EXCEPT ![k] = "done"]
        /\ calls' = Append(calls, connectors[k].provider)
        /\ results' = Append(results,
                             generate_with_provider(connectors[k],
                                                    answers[connectors[k].provider]))
  /\ UNCHANGED <<pipeline_vars, connector_vars, backend_vars, providers_config, connectors, answers,
                 generator_pc, outcome>>

\* the rest of generate_parallel once as_completed is exhausted; the loop of
\* select_best_result has stored the scores in the dicts of the results list
AllDone == generator_pc = "running" /\ \A k \in DOMAIN futures : futures[k] = "done"
ParallelReturn ==
  /\ AllDone
  /\ generator_pc' = "returned"
  /\ \E comparison \in {compare_results(results)},
        best_result \in {select_best_result(results)} :
        outcome' = [returned |-> TRUE,
                    results |-> IF ValidResults(results) = <<>> THEN results
                                ELSE [k \in 1..Len(results) |-> Scored(results[k])],
                    comparison |-> comparison,
                    best_result |-> best_result]
  /\ UNCHANGED <<pipeline_vars, connector_vars, backend_vars, providers_config, connectors, answers,
                 futures, calls, results>>

GeneratorNext == GenerateParallel \/ WorkerCompletes \/ ParallelReturn
GeneratorSpec == GeneratorInit /\ [][GeneratorNext]_vars

\* the caller and the workers are threads: one that can take a step does (the
\* step that returns is the one that takes generator_pc to "returned")
GeneratorFairSpec ==
  /\ GeneratorSpec
  /\ WF_vars(GenerateParallel)
  /\ WF_vars(WorkerCompletes)
  /\ WF_generator_pc(AllDone /\ generator_pc' = "returned")

\* the results in another arrival order
Rearranged(order) == [k \in 1..Len(results) |-> results[order[k]]]
ProviderOf(r) == Get(r, "provider", None)

\* C21: the outcome of generate_parallel does not depend on the order in which
\* the workers complete: whatever the arrival order of the same results, the
\* comparison is the same and best_result is the result of the same provider
C21_OrderIndependent ==
  outcome.returned =>
    \A order \in Orderings(1..Len(results)) :
       /\ compare_results(Rearranged(order)) = outcome.comparison
       /\ ProviderOf(select_best_result(Rearranged(order))) = ProviderOf(outcome.best_result)

TimesCalled(provider) == Cardinality({j \in 1..Len(calls) : calls[j] = provider})
EntriesOf(c) ==
  {j \in 1..Len(outcome.results) :
     /\ ProviderOf(outcome.results[j]) = c.provider
     /\ Get(outcome.results[j], "model", None) = c.model_name}
\* C22: generate_parallel calls generate_sql exactly once on every provider
\* that passed the liveness check and on no other, and the returned results
\* hold exactly one entry for each of them, tagged with provider and model
C22_OncePerLiveProvider ==
  /\ \A j \in 1..Len(calls) :
        \E k \in 1..Len(connectors) : connectors[k].provider = calls[j]
  /\ outcome.returned =>
       /\ Len(outcome.results) = Len(connectors)
       /\ \A k \in 1..Len(connectors) :
             /\ TimesCalled(connectors[k].provider) = 1
             /\ Cardinality(EntriesOf(connectors[k])) = 1

\* C23: generate_parallel always returns, whatever the providers do
C23_AlwaysReturns == (generator_pc = "running") ~> (generator_pc = "returned")

\* valid as the specification has it: error-free and with non-empty SQL
HasNonEmptySql(r) == IsValidResult(r) /\ r.sql_query # ""
IsErrored(r) == Truthy(Get(r, "error", None))
\* C24: when a result is error-free with non-empty SQL, best_result is such a
\* result and none of them has a higher score; best_result is an errored
\* result only when there is no such result, and then it is the first result
C24_BestIsValid ==
  outcome.returned =>
    LET valid == {r \in Range(results) : HasNonEmptySql(r)}
    IN /\ valid # {} =>
            /\ HasNonEmptySql(outcome.best_result)
            /\ \A r \in valid : quality_score(r) <= quality_score(outcome.best_result)
       /\ IsErrored(outcome.best_result) =>
            /\ valid = {}
            /\ ProviderOf(outcome.best_result) = ProviderOf(results[1])

\* C25: compare_results always gives a confidence_level: HIGH when select_match,
\* from_match and where_similarity all hold, MEDIUM when at least one holds,
\* LOW when none holds, and LOW when fewer than two results are valid
C25_ConfidenceLevel ==
  outcome.returned =>
    LET comparison == outcome.comparison
        Level(s, f, w) == IF s /\ f /\ w THEN "HIGH"
                          ELSE IF s \/ f \/ w THEN "MEDIUM" ELSE "LOW"
    IN /\ "confidence_level" \in DOMAIN comparison
       /\ Len(ValidResults(results)) < 2 => comparison.confidence_level = "LOW"
       /\ comparison.status = "compared" =>
            comparison.confidence_level =
              Level(comparison.select_match, comparison.from_match,
                    comparison.where_similarity)

ValidatorData == validator_response.data
CriticalFailures(log) ==
  {k \in 1..Len(log) : ~log[k].success /\ log[k].agent = "DB2SyntaxValidator"}
\* C27: the Syntax Validator succeeds on every non-empty query and fails on the
\* empty one only; each issue that is no table or column miss is also one of
\* the corrections; the number of issues is the number of corrections plus the
\* table issues plus the column issues; the orchestrator records a critical
\* failure only for an empty initial query
C27_ValidatorSucceeds ==
  /\ validator_response # NotCalled =>
       /\ validator_response.success <=> initial_query # ""
       /\ validator_response.success =>
            /\ \A k \in 1..Len(ValidatorData.issues) :
                  IsCritical(ValidatorData.issues[k]) =>
                    \E j \in 1..Len(ValidatorData.corrections) :
                       EndsWith(ValidatorData.corrections[j], ValidatorData.issues[k])
            /\ Len(ValidatorData.issues)
                 = Len(ValidatorData.corrections)
                   + ValidatorData.step_details.table_issues
                   + ValidatorData.step_details.column_issues
  /\ result.returned =>
       (CriticalFailures(result.processing_log) # {} <=> initial_query = "")
\* a run on a query with a correction, a table issue and a column issue has returned
C27_Witness ==
  /\ result.returned
  /\ validator_response.success
  /\ ValidatorData.step_details.total_changes > 0
  /\ ValidatorData.step_details.table_issues > 0
  /\ ValidatorData.step_details.column_issues > 0

\* the validated_query of the Column Validator invocation that decides: the
\* recheck's when the recheck succeeded, the first step's otherwise
DecidingValidatedQuery ==
  IF final_column_check.success
  THEN Get(final_column_check.data, "validated_query", None)
  ELSE Get(column_validator_response.data, "validated_query", None)
\* after the SQLRegeneration step only the recheck runs
OnlyRecheckAfterRegeneration(log) ==
  \A k \in 1..Len(log) :
     log[k].agent = "SQLRegeneration" =>
       \A j \in (k + 1)..Len(log) : log[j].agent = "ColumnValidation-Recheck"
EnhancerInput ==
  IF validator_response.success THEN validator_response.data
  ELSE [sql_query |-> Get(validator_response.data, "validated_query", initial_query),
        original_query |-> initial_query]

\* the entry of the processing log and the query handed to the next step
EnhancerOutcome(r) ==
  [success |-> r.success, message |-> r.message,
   enhancements |-> Get(r.data, "enhancements", <<>>),
   query |-> Get(r.data, "enhanced_query", None)]

\* C29: the two implementations of the pipeline entry point,
\* agents.process_with_agents and sql_agent_orchestrator.process_with_agents,
\* are equivalent: on the same query, question, registry and dialect the
\* Where Clause Enhancer step of the one gives the processing-log entry and
\* the enhanced query that the same step of the other gives (the other
\* steps are the same text in both), so that success, final_query,
\* processing_log and improvements are the same, for queries with a WITH
\* prelude and for questions with time keywords too.
C29_EntryPointsEquivalent ==
  enhancer_response # NotCalled =>
    EnhancerOutcome(MonolithEnhancerProcess(EnhancerInput, context))
      = EnhancerOutcome(enhancer_response)

(***************************************************************************)
(* The FastAPI backend (backend/main.py).  The handlers are coroutines     *)
(* without an await, so each call runs from its first statement to its     *)
(* response before the next one starts.  A raise HTTPException inside a    *)
(* handler's try block is caught by its own "except Exception" and is      *)
(* answered with status 500.                                               *)
(***************************************************************************)
MaxCalls == 5

\* the files a client uploads: one that loads, one pandas cannot read, one
\* with a suffix upload_data skips
UploadFiles == {"deals.csv", "broken.csv", "notes.txt"}
Unreadable == {"broken.csv"}
DemoTables ==
  {"PROD_MQT_CONSULTING_PIPELINE", "PROD_MQT_SW_SAAS_OPPORTUNITY",
   "PROD_MQT_CONSULTING_OPPORTUNITY", "PROD_MQT_CONSULTING_BUDGET",
   "PROD_MQT_SOFTWARE_TRANSACTIONAL_PIPELINE", "PROD_MQT_SOFTWARE_TRANSACTIONAL_BUDGET"}
\* what a client sends as LLMConfig
BackendProviders == {"ollama", "openai", "cohere"}
ApiKeys == {None, "key"}

\* DatabaseManager.load_uploaded_files: a file that cannot be read is
\* reported with a warning and skipped, so that the call returns normally
\* even when it has loaded no table
load_uploaded_files(db_manager, uploaded_files) ==
  [db_manager EXCEPT !.tables_loaded =
     @ \cup {Replace(Replace(Replace(f, ".csv", ""), ".xlsx", ""), ".xls", "") :
               f \in uploaded_files \ Unreadable}]

\* DatabaseManager.create_demo_data
create_demo_data(db_manager) ==
  [db_manager EXCEPT !.tables_loaded = @ \cup DemoTables]

\* the bookkeeping of a served call
ServeCall(endpoint, status) ==
  /\ api_calls' = api_calls + 1
  /\ last_response' = [endpoint |-> endpoint, status |-> status]
  /\ succeeded' = IF status = 200 THEN succeeded \cup {endpoint} ELSE succeeded

\* POST /api/upload-data
upload_data ==
  /\ api_calls < MaxCalls
  /\ \E files \in SUBSET UploadFiles :
       LET uploaded_files ==
             {f \in files : EndsWith(f, ".csv") \/ EndsWith(f, ".xlsx") \/ EndsWith(f, ".xls")}
       IN IF uploaded_files = {}
          THEN ServeCall("upload-data", 500) /\ UNCHANGED app_state
          ELSE /\ app_state' =
                    [app_state EXCEPT
                       !.db_manager = load_uploaded_files(@, uploaded_files),
                       !.data_loaded = TRUE]
               /\ ServeCall("upload-data", 200)
  /\ UNCHANGED <<pipeline_vars, connector_vars, generator_vars, served>>

\* POST /api/load-demo-data; create_demo_data can raise before it has
\* registered a table
load_demo_data ==
  /\ api_calls < MaxCalls
  /\ \E raises \in BOOLEAN :
       IF raises
       THEN ServeCall("load-demo-data", 500) /\ UNCHANGED app_state
       ELSE /\ app_state' =
                 [app_state EXCEPT !.db_manager = create_demo_data(@),
                                   !.data_loaded = TRUE]
            /\ ServeCall("load-demo-data", 200)
  /\ UNCHANGED <<pipeline_vars, connector_vars, generator_vars, served>>

\* connect_llm keeping the connector whatever its liveness check found
connect_llm_unchecked ==
  /\ api_calls < MaxCalls
  /\ \E provider \in BackendProviders, apiKey \in ApiKeys, env \in Environments :
       LET llm_connector_new ==
             LLMConnector(provider, "model", IF Truthy(apiKey) THEN apiKey ELSE "", env)
       IN /\ app_state' = [app_state EXCEPT !.llm_connector = llm_connector_new,
                                            !.llm_connected = TRUE]
          /\ ServeCall("connect-llm", IF llm_connector_new.connected THEN 200 ELSE 500)
  /\ UNCHANGED <<pipeline_vars, connector_vars, generator_vars, served>>

\* POST /api/connect-llm
connect_llm ==
  /\ api_calls < MaxCalls
  /\ \E provider \in BackendProviders, apiKey \in ApiKeys, env \in Environments :
       LET llm_connector_new ==
             LLMConnector(provider, "model", IF Truthy(apiKey) THEN apiKey ELSE "", env)
       IN IF ~llm_connector_new.connected
          THEN ServeCall("connect-llm", 500) /\ UNCHANGED app_state
          ELSE /\ app_state' = [app_state EXCEPT !.llm_connector = llm_connector_new,
                                                 !.llm_connected = TRUE]
               /\ ServeCall("connect-llm", 200)
  /\ UNCHANGED <<pipeline_vars, connector_vars, generator_vars, served>>

\* POST /api/generate-query; result.get on an answer that is no dict
\* raises, as process_with_agents may
generate_query ==
  /\ api_calls < MaxCalls
  /\ IF ~app_state.llm_connected \/ ~app_state.data_loaded
     THEN ServeCall("generate-query", 500) /\ UNCHANGED served
     ELSE \E env \in Environments, reply \in BackendReplies, pipeline_raises \in BOOLEAN :
            LET answer == generate_sql(app_state.llm_connector, env, reply)
                has_query == answer.kind = "dict"
                             /\ Truthy(Get(answer.value, "sql_query", None))
            IN /\ served' = [served EXCEPT !.llm = @ + 1,
                                           !.pipeline = IF has_query THEN @ + 1 ELSE @]
               /\ ServeCall("generate-query",
                          IF has_query /\ ~pipeline_raises THEN 200 ELSE 500)
  /\ UNCHANGED <<pipeline_vars, connector_vars, generator_vars, app_state>>

\* POST /api/execute-query; DatabaseManager.execute_query answers an SQL
\* error with an empty frame
execute_query ==
  /\ api_calls < MaxCalls
  /\ IF ~app_state.data_loaded
     THEN ServeCall("execute-query", 500) /\ UNCHANGED served
     ELSE /\ served' = [served EXCEPT !.sql = @ + 1]
          /\ ServeCall("execute-query", 200)
  /\ UNCHANGED <<pipeline_vars, connector_vars, generator_vars, app_state>>

BackendInit == PipelineIdle /\ ConnectorIdle /\ GeneratorIdle /\ BackendIdle
BackendNext ==
  \/ upload_data
  \/ load_demo_data
  \/ connect_llm
  \/ generate_query
  \/ execute_query
BackendSpec == BackendInit /\ [][BackendNext]_vars

DataLoads == {"upload-data", "load-demo-data"}
\* what holds of the backend after any sequence of calls
BackendGuards ==
  /\ (served.llm > 0 \/ served.pipeline > 0) =>
       "connect-llm" \in succeeded /\ DataLoads \cap succeeded # {}
  /\ served.sql > 0 => DataLoads \cap succeeded # {}
  /\ app_state.llm_connected =>
       app_state.llm_connector # NoConnector /\ app_state.llm_connector.connected
\* a step that serves a /api/connect-llm call answered with an error
FailedConnect ==
  /\ api_calls' = api_calls + 1
  /\ last_response'.endpoint = "connect-llm"
  /\ last_response'.status # 200

\* C30: in the FastAPI backend, after any sequence of API calls,
\* /api/generate-query has called the LLM and the agent pipeline only if an
\* earlier /api/connect-llm succeeded and an earlier /api/upload-data or
\* /api/load-demo-data succeeded; /api/execute-query has run SQL only if
\* such a data load succeeded; app_state.llm_connected is true only while
\* app_state.llm_connector is a connector whose liveness check passed; and a
\* failed /api/connect-llm leaves llm_connector and llm_connected unchanged.
C30_BackendGuards ==
  /\ []BackendGuards
  /\ [][FailedConnect =>
          /\ app_state'.llm_connector = app_state.llm_connector
          /\ app_state'.llm_connected = app_state.llm_connected]_vars
\* the LLM, the pipeline and the database have been used, and a connect-llm
\* call has just failed while a connector is kept
C30_Witness ==
  /\ served.llm > 0 /\ served.pipeline > 0 /\ served.sql > 0
  /\ last_response = [endpoint |-> "connect-llm", status |-> 500]
  /\ app_state.llm_connected

====
